---------------------------- MODULE Spec2Model ----------------------------
(***************************************************************************)
(* A model of the native core of Astro-Mobile-App:                         *)
(*   - stacking_jni.c   : frame alignment (triangles + RANSAC) and the     *)
(*                        accumulator behind the StackingNative handle     *)
(*   - astrometry_jni.c : the star orderer run by detectStarsNative        *)
(*                                                                         *)
(* Numbers.  Star coordinates and pixel values are small integers, so the  *)
(* float/double arithmetic of the source is exact rational arithmetic in   *)
(* the model: a rational is a pair <<n, d>> with d > 0, in lowest terms.   *)
(* A side length sqrtf(d2) is kept as its square d2, a ratio s1/s0 as the  *)
(* pair of squares, and comparisons of square roots are decided exactly.   *)
(*                                                                         *)
(* Specifications.  Spec is the stacking handle driven through             *)
(* initStackingNative, addFrameNative and getStackedImageNative;           *)
(* SpecDetect is one call of detectStarsNative.                            *)
(***************************************************************************)
EXTENDS Integers, Sequences, FiniteSets, TLC

(***************************************************************************)
(* Program constants (stacking_jni.c)                                      *)
(***************************************************************************)
MAX_TRIANGLES_PER_STAR == 10
NUM_NEIGHBORS == 5
RANSAC_ITERATIONS == 500
MAX_STACKING_STARS == 50
MAX_CORR == 10000
MAX_RETRY == 10
\* TRIANGLE_RATIO_TOLERANCE 0.01 is 1/TOL_INV, its square 1/TOL_INV_SQ
TOL_INV == 100
TOL_INV_SQ == 10000
\* RANSAC_INLIER_THRESHOLD 3.0, squared
INLIER_THRESHOLD_SQ == 9

(***************************************************************************)
(* Generic helpers                                                         *)
(***************************************************************************)
Abs(n) == IF n < 0 THEN -n ELSE n

Min(a, b) == IF a < b THEN a ELSE b

RECURSIVE GcdNat(_, _)
GcdNat(a, b) == IF b = 0 THEN a ELSE GcdNat(b, a % b)

Gcd(a, b) == GcdNat(Abs(a), Abs(b))

Front(s) == SubSeq(s, 1, Len(s) - 1)

Last(s) == s[Len(s)]

Take(s, n) == SubSeq(s, 1, Min(n, Len(s)))

\* rationals
Rat(n, d) ==
    LET g == Gcd(n, d)
        s == IF d < 0 THEN -1 ELSE 1
    IN  <<s * (n \div g), s * (d \div g)>>

RatAdd(p, q) ==
    LET g == Gcd(p[2], q[2])
    IN  Rat(p[1] * (q[2] \div g) + q[1] * (p[2] \div g), (p[2] \div g) * q[2])

RatZero == <<0, 1>>

(***************************************************************************)
(* stacking_jni.c : utility functions                                      *)
(***************************************************************************)
\* dist2 (lines 71-75)
dist2(x1, y1, x2, y2) == (x2 - x1) * (x2 - x1) + (y2 - y1) * (y2 - y1)

\* An affine_t holds a, b, c, d, tx, ty as numerators over one denominator:
\* the six numerators and den divided by k, their common divisor with the
\* sign of den (1 when all are 0)
AffineOver(a, b, c, d, tx, ty, den, k) ==
    [a |-> a \div k, b |-> b \div k, c |-> c \div k, d |-> d \div k,
     tx |-> tx \div k, ty |-> ty \div k, den |-> den \div k]

Signed(g, den) == IF g = 0 THEN 1 ELSE IF den < 0 THEN -g ELSE g

Affine(a, b, c, d, tx, ty, den) ==
    AffineOver(a, b, c, d, tx, ty, den,
               Signed(Gcd(a, Gcd(b, Gcd(c, Gcd(d, Gcd(tx, Gcd(ty, den)))))), den))

\* apply_affine (lines 85-88): the numerators of the image of (x, y); the
\* image is <<px, py>> / aff.den
apply_affine(aff, x, y) ==
    <<aff.a * x + aff.b * y + aff.tx, aff.c * x + aff.d * y + aff.ty>>

\* invert_affine (lines 91-103): det = a*d - b*c; singular gives ok = FALSE
invert_affine(aff) ==
    LET detN == aff.a * aff.d - aff.b * aff.c   \* det * den^2
    IN  IF detN = 0
        THEN [ok |-> FALSE]
        ELSE [ok |-> TRUE,
              inv |-> Affine(aff.d * aff.den, -aff.b * aff.den,
                             -aff.c * aff.den, aff.a * aff.den,
                             aff.b * aff.ty - aff.d * aff.tx,
                             aff.c * aff.tx - aff.a * aff.ty,
                             detN)]

(***************************************************************************)
(* stacking_jni.c : form_triangles                                         *)
(* A star is [x, y, flux]; star indices are 0-based as in the source.      *)
(***************************************************************************)
StarAt(stars, idx) == stars[idx + 1]

\* lines 138-146: the other stars with their squared distance to star i
Neighbors(stars, max_use_stars, i) ==
    LET Rec(j) == [d2 |-> dist2(StarAt(stars, i).x, StarAt(stars, i).y,
                                StarAt(stars, j).x, StarAt(stars, j).y),
                   idx |-> j]
        F[j \in 0..max_use_stars] ==
            IF j = 0 THEN <<>>
            ELSE IF j - 1 = i THEN F[j - 1]
            ELSE Append(F[j - 1], Rec(j - 1))
    IN  F[max_use_stars]

\* lines 149-157: one pass of the insertion sort, by d2 ascending
RECURSIVE InsertNeighbor(_, _)
InsertNeighbor(sorted, key) ==
    IF sorted = <<>> \/ ~(Last(sorted).d2 > key.d2)
    THEN Append(sorted, key)
    ELSE Append(InsertNeighbor(Front(sorted), key), Last(sorted))

\* lines 149-157: the passes for ns[lo..hi] in turn, in two halves; the
\* length is read so that the first half is finished before the second starts
RECURSIVE InsertNeighbors(_, _, _, _)
InsertNeighbors(sorted, ns, lo, hi) ==
    IF lo > hi THEN sorted
    ELSE IF lo = hi THEN InsertNeighbor(sorted, ns[lo])
    ELSE LET mid == InsertNeighbors(sorted, ns, lo, (lo + hi) \div 2)
         IN  IF Len(mid) >= 0
             THEN InsertNeighbors(mid, ns, (lo + hi) \div 2 + 1, hi)
             ELSE mid

SortNeighbors(ns) == InsertNeighbors(<<>>, ns, 1, Len(ns))

\* lines 189-196: insertion sort of the (side, opposite vertex) pairs
RECURSIVE InsertSide(_, _)
InsertSide(sorted, key) ==
    IF sorted = <<>> \/ ~(Last(sorted).side > key.side)
    THEN Append(sorted, key)
    ELSE Append(InsertSide(Front(sorted), key), Last(sorted))

RECURSIVE SortSides(_)
SortSides(ps) ==
    IF ps = <<>> THEN <<>>
    ELSE InsertSide(SortSides(Front(ps)), Last(ps))

\* lines 167-205: the triangle (i, idx_a, idx_b); sides are squared lengths,
\* ratio1 = sqrt(r1n / r1d), ratio2 = sqrt(r2n / r2d)
Triangle(stars, i, idx_a, idx_b) ==
    LET si == StarAt(stars, i)
        sa_ == StarAt(stars, idx_a)
        sb_ == StarAt(stars, idx_b)
        sa == dist2(si.x, si.y, sa_.x, sa_.y)
        sb == dist2(si.x, si.y, sb_.x, sb_.y)
        sc == dist2(sa_.x, sa_.y, sb_.x, sb_.y)
        srt == SortSides(<<[side |-> sa, vert |-> idx_b],
                           [side |-> sb, vert |-> idx_a],
                           [side |-> sc, vert |-> i]>>)
    IN  IF sa = 0 \/ sb = 0 \/ sc = 0
        THEN <<>>                                  \* degenerate: continue
        ELSE << [r1n |-> srt[2].side, r1d |-> srt[1].side,
                 r2n |-> srt[3].side, r2d |-> srt[1].side,
                 star_indices |-> <<srt[1].vert, srt[2].vert, srt[3].vert>>] >>

\* lines 138-160: the neighbours of star i, nearest first
NearestNeighbors(stars, max_use_stars, i) ==
    SortNeighbors(Neighbors(stars, max_use_stars, i))

\* lines 160-207: the triangles of star i, pairs (a, b) with a < b
StarTriangles(stars, max_use_stars, i) ==
    LET nb == SortNeighbors(Neighbors(stars, max_use_stars, i))
        use_neighbors == Min(Len(nb), NUM_NEIGHBORS)
        RowB[a \in 0..use_neighbors, b \in 0..use_neighbors] ==
            \* triangles of pairs (a, b'), a < b' < b
            IF b <= a + 1 THEN <<>>
            ELSE RowB[a, b - 1] \o Triangle(stars, i, nb[a + 1].idx, nb[b].idx)
        RowA[a \in 0..use_neighbors] ==
            IF a = 0 THEN <<>>
            ELSE RowA[a - 1] \o RowB[a - 1, use_neighbors]
    IN  RowA[use_neighbors]

\* lines 128-208: the triangles of the stars lo..hi, in two halves
RECURSIVE TrianglesOfStars(_, _, _, _)
TrianglesOfStars(stars, max_use_stars, lo, hi) ==
    IF lo > hi THEN <<>>
    ELSE IF lo = hi THEN StarTriangles(stars, max_use_stars, lo)
    ELSE LET first == TrianglesOfStars(stars, max_use_stars, lo, (lo + hi) \div 2)
         IN  IF Len(first) >= 0
             THEN first \o TrianglesOfStars(stars, max_use_stars,
                                            (lo + hi) \div 2 + 1, hi)
             ELSE first

\* form_triangles (lines 111-212): NULL for fewer than 3 stars
form_triangles(stars, num_stars) ==
    IF num_stars < 3
    THEN [null |-> TRUE, tri |-> <<>>]
    ELSE LET max_use_stars == Min(num_stars, MAX_STACKING_STARS)
             max_triangles == max_use_stars * MAX_TRIANGLES_PER_STAR
         IN  [null |-> FALSE,
              tri |-> Take(TrianglesOfStars(stars, max_use_stars, 0, max_use_stars - 1),
                           max_triangles)]

(***************************************************************************)
(* stacking_jni.c : match_triangles                                        *)
(***************************************************************************)
\* n1/d1 < n2/d2 for n1, n2 >= 0 and d1, d2 > 0, by continued fractions: no
\* product is formed
RECURSIVE FracLess(_, _, _, _)
FracLess(n1, d1, n2, d2) ==
    IF n1 \div d1 # n2 \div d2 THEN n1 \div d1 < n2 \div d2
    ELSE IF n2 % d2 = 0 THEN FALSE
    ELSE IF n1 % d1 = 0 THEN TRUE
    ELSE FracLess(d2, n2 % d2, d1, n1 % d1)

\* fabsf(sqrt(an/ad) - sqrt(bn/bd)) < 1/TOL_INV (lines 241-242), decided
\* exactly:
\*   |sqrt p - sqrt q| < t  <=>  |p - q| < t (sqrt p + sqrt q)
\*   <=>  X^2 - p - q < 2 sqrt(p q)   with X = |p - q| / t
ClosePQ(p, q) ==
    LET diff == Abs(p[1] * q[2] - q[1] * p[2])
        den == p[2] * q[2]
        \* M = X^2 - p - q, as Mnum / den^2
        Mnum == TOL_INV_SQ * diff * diff - p[1] * p[2] * q[2] * q[2]
                    - q[1] * q[2] * p[2] * p[2]
    IN  IF diff = 0 THEN TRUE
        ELSE IF Mnum < 0 THEN TRUE
        \* Mnum^2 < 4 p1 q1 den^3
        ELSE FracLess(Mnum, den * den * den, 4 * p[1] * q[1], Mnum)

\* the largest m in lo..hi with m * m <= n
RECURSIVE IsqrtIn(_, _, _)
IsqrtIn(n, lo, hi) ==
    IF lo = hi THEN lo
    ELSE IF ((lo + hi + 1) \div 2) * ((lo + hi + 1) \div 2) <= n
         THEN IsqrtIn(n, (lo + hi + 1) \div 2, hi)
         ELSE IsqrtIn(n, lo, ((lo + hi + 1) \div 2) - 1)

\* ratios are bracketed in thousandths before they are compared exactly
ROOT_SCALE == 1000

\* floor(ROOT_SCALE * sqrt(n / d))
ScaledRoot(n, d) == IsqrtIn((n * ROOT_SCALE * ROOT_SCALE) \div d, 0, 46340)

\* with gap the difference of the two scaled roots, the ratios differ by
\* more than (gap - 1) and by less than (gap + 1) thousandths; the exact
\* comparison decides what the brackets leave open
CloseWithin(an, ad, bn, bd, gap) ==
    IF (gap + 1) * TOL_INV <= ROOT_SCALE THEN TRUE
    ELSE IF (gap - 1) * TOL_INV >= ROOT_SCALE THEN FALSE
    ELSE ClosePQ(Rat(an, ad), Rat(bn, bd))

RatioClose(an, ad, bn, bd) ==
    CloseWithin(an, ad, bn, bd, Abs(ScaledRoot(an, ad) - ScaledRoot(bn, bd)))

\* lines 241-242
TriangleMatch(tn, tr) ==
    /\ RatioClose(tn.r1n, tn.r1d, tr.r1n, tr.r1d)
    /\ RatioClose(tn.r2n, tn.r2d, tr.r2n, tr.r2d)

\* PairCorr with a fault: vertex k of the new triangle is paired with vertex
\* 2 - k of the ref triangle
PairCorrReversed(tn, tr, ref_stars, new_stars) ==
    [k \in 1..3 |->
        [new_x |-> StarAt(new_stars, tn.star_indices[k]).x,
         new_y |-> StarAt(new_stars, tn.star_indices[k]).y,
         ref_x |-> StarAt(ref_stars, tr.star_indices[4 - k]).x,
         ref_y |-> StarAt(ref_stars, tr.star_indices[4 - k]).y]]

\* lines 246-257: the three correspondences of a matched pair
PairCorr(tn, tr, ref_stars, new_stars) ==
    [k \in 1..3 |->
        [new_x |-> StarAt(new_stars, tn.star_indices[k]).x,
         new_y |-> StarAt(new_stars, tn.star_indices[k]).y,
         ref_x |-> StarAt(ref_stars, tr.star_indices[k]).x,
         ref_y |-> StarAt(ref_stars, tr.star_indices[k]).y]]

\* lines 239-259: the correspondences of the new triangle tn with the ref
\* triangles lo..hi, in two halves
RECURSIVE MatchRefRange(_, _, _, _, _, _)
MatchRefRange(ref_tri, ref_stars, tn, new_stars, lo, hi) ==
    IF lo > hi THEN <<>>
    ELSE IF lo = hi
    THEN IF TriangleMatch(tn, ref_tri[lo])
         THEN PairCorr(tn, ref_tri[lo], ref_stars, new_stars)
         ELSE <<>>
    ELSE MatchRefRange(ref_tri, ref_stars, tn, new_stars, lo, (lo + hi) \div 2)
            \o MatchRefRange(ref_tri, ref_stars, tn, new_stars,
                             (lo + hi) \div 2 + 1, hi)

\* lines 238-260: the correspondences of the new triangles lo..hi, in two
\* halves
RECURSIVE MatchNewRange(_, _, _, _, _, _)
MatchNewRange(ref_tri, ref_stars, new_tri, new_stars, lo, hi) ==
    IF lo > hi THEN <<>>
    ELSE IF lo = hi
    THEN MatchRefRange(ref_tri, ref_stars, new_tri[lo], new_stars, 1, Len(ref_tri))
    ELSE MatchNewRange(ref_tri, ref_stars, new_tri, new_stars, lo, (lo + hi) \div 2)
            \o MatchNewRange(ref_tri, ref_stars, new_tri, new_stars,
                             (lo + hi) \div 2 + 1, hi)

\* match_triangles (lines 219-266): new triangles outer, ref triangles inner;
\* once corr_idx reaches max_corr nothing more is stored (line 247)
match_triangles(ref_tri, ref_stars, new_tri, new_stars) ==
    Take(MatchNewRange(ref_tri, ref_stars, new_tri, new_stars, 1, Len(new_tri)),
         Min(Len(ref_tri) * Len(new_tri) * 3, MAX_CORR))

(***************************************************************************)
(* stacking_jni.c : RANSAC                                                 *)
(* rand() is the C library's process-wide generator.  Its state is the     *)
(* pair [stream, pos]: srand(seed) selects the stream the seed determines  *)
(* and rand() returns the stream's next value.  A stream is periodic.      *)
(***************************************************************************)
rand(rng) ==
    [value |-> rng.stream[rng.pos + 1],
     rng |-> [rng EXCEPT !.pos = (rng.pos + 1) % Len(rng.stream)]]

Det3(r1, r2, r3) ==
      r1[1] * (r2[2] * r3[3] - r2[3] * r3[2])
    - r1[2] * (r2[1] * r3[3] - r2[3] * r3[1])
    + r1[3] * (r2[1] * r3[2] - r2[2] * r3[1])

\* solve_affine_3pt (lines 273-353): the 6x6 system is two 3x3 systems with
\* the same matrix [new_x new_y 1]; solved exactly (Cramer).  A singular
\* matrix is taken as the failure of gsl_linalg_LU_solve (lines 330-337,
\* return 0).
solve_affine_3pt(sample) ==
    LET Row(i) == <<sample[i].new_x, sample[i].new_y, 1>>
        RowX(i, col) == [Row(i) EXCEPT ![col] = sample[i].ref_x]
        RowY(i, col) == [Row(i) EXCEPT ![col] = sample[i].ref_y]
        D == Det3(Row(1), Row(2), Row(3))
    IN  IF D = 0
        THEN [ok |-> FALSE]
        ELSE [ok |-> TRUE,
              aff |-> Affine(Det3(RowX(1, 1), RowX(2, 1), RowX(3, 1)),
                             Det3(RowX(1, 2), RowX(2, 2), RowX(3, 2)),
                             Det3(RowY(1, 1), RowY(2, 1), RowY(3, 1)),
                             Det3(RowY(1, 2), RowY(2, 2), RowY(3, 2)),
                             Det3(RowX(1, 3), RowX(2, 3), RowX(3, 3)),
                             Det3(RowY(1, 3), RowY(2, 3), RowY(3, 3)),
                             D)]

\* lines 362-372: the loop over corr[lo..hi], split in halves
RECURSIVE EvaluateRange(_, _, _, _)
EvaluateRange(aff, corr, lo, hi) ==
    IF lo > hi THEN [inliers |-> 0, sum_sq_error |-> 0]
    ELSE IF lo = hi
    THEN LET p == apply_affine(aff, corr[lo].new_x, corr[lo].new_y)
             \* squared reprojection error, times den^2
             e == dist2(p[1], p[2], corr[lo].ref_x * aff.den, corr[lo].ref_y * aff.den)
         IN  [inliers |-> IF e < INLIER_THRESHOLD_SQ * aff.den * aff.den THEN 1 ELSE 0,
              sum_sq_error |-> e]
    ELSE LET mid == (lo + hi) \div 2
             l == EvaluateRange(aff, corr, lo, mid)
             r == EvaluateRange(aff, corr, mid + 1, hi)
         IN  [inliers |-> l.inliers + r.inliers,
              sum_sq_error |-> l.sum_sq_error + r.sum_sq_error]

\* evaluate_affine (lines 356-376).  rms is kept as rms^2 = rms_n / rms_d.
evaluate_affine(aff, corr) ==
    LET num_corr == Len(corr)
        tot == EvaluateRange(aff, corr, 1, num_corr)
    IN  [inliers |-> tot.inliers,
         rms_n |-> IF num_corr > 0 THEN tot.sum_sq_error ELSE 0,
         rms_d |-> IF num_corr > 0 THEN aff.den * aff.den * num_corr ELSE 1]

\* best_rms = 1e9 (line 388): larger than every rms of the model
BEST_RMS_INIT == [n |-> 1, d |-> 0]

RmsLess(n1, d1, best) ==
    IF best.d = 0 THEN TRUE ELSE FracLess(n1, d1, best.n, best.d)

\* lines 396-409: the do/while that draws indices[i]
RECURSIVE DrawIndex(_, _, _, _)
DrawIndex(num_corr, earlier, rng, retry) ==
    LET r == rand(rng)
        idx == r.value % num_corr
        dup == \E j \in 1..Len(earlier) : earlier[j] = idx
    IN  IF ~dup THEN [idx |-> idx, rng |-> r.rng]
        ELSE IF retry + 1 < MAX_RETRY
             THEN DrawIndex(num_corr, earlier, r.rng, retry + 1)
             ELSE [idx |-> idx, rng |-> r.rng]

\* lines 393-412: the for loop that draws indices[0..2], from the indices
\* drawn so far
RECURSIVE DrawSample(_, _, _)
DrawNext(num_corr, indices, drawn) ==
    DrawSample(num_corr, Append(indices, drawn.idx), drawn.rng)

DrawSample(num_corr, indices, rng) ==
    IF Len(indices) = 3
    THEN [indices |-> indices, rng |-> rng]
    ELSE DrawNext(num_corr, indices, DrawIndex(num_corr, indices, rng, 0))

\* lines 414-423: the sample s solved to sol, evaluated on all correspondences
EvaluateSample(corr, s, sol) ==
    IF ~sol.ok
    THEN [rng |-> s.rng, indices |-> s.indices, solved |-> FALSE]
    ELSE [rng |-> s.rng, indices |-> s.indices, solved |-> TRUE,
          aff |-> sol.aff, ev |-> evaluate_affine(sol.aff, corr)]

\* lines 411, 414-418: sample[i] = corr[indices[i]], solved
SolveSample(corr, s) ==
    EvaluateSample(corr, s,
                   solve_affine_3pt([i \in 1..3 |-> corr[s.indices[i] + 1]]))

\* lines 391-431: what one iteration computes, from the generator's state
RansacIteration(corr, rng) == SolveSample(corr, DrawSample(Len(corr), <<>>, rng))

\* keep only on more inliers
KeepIfMoreInliers(st, it) ==
    IF it.solved /\ it.ev.inliers > st.best_inliers
    THEN [st EXCEPT !.best_inliers = it.ev.inliers,
                    !.best_rms = [n |-> it.ev.rms_n, d |-> it.ev.rms_d],
                    !.best = it.aff]
    ELSE st

\* lines 425-430: keep if better
KeepIfBetter(st, it) ==
    IF it.solved /\ (it.ev.inliers > st.best_inliers
                     \/ (it.ev.inliers = st.best_inliers
                         /\ RmsLess(it.ev.rms_n, it.ev.rms_d, st.best_rms)))
    THEN [st EXCEPT !.best_inliers = it.ev.inliers,
                    !.best_rms = [n |-> it.ev.rms_n, d |-> it.ev.rms_d],
                    !.best = it.aff]
    ELSE st

\* the loop body of lines 391-431 for each generator position from p on
RECURSIVE IterationTable(_, _, _)
IterationTable(corr, rng, p) ==
    IF p >= Len(rng.stream) THEN <<>>
    ELSE <<RansacIteration(corr, [rng EXCEPT !.pos = p])>>
             \o IterationTable(corr, rng, p + 1)

\* n passes of the loop body (the for of line 391), halving the count; the
\* generator position is read so that the first half is finished before the
\* second starts
RECURSIVE RansacLoop(_, _, _)
RansacLoop(table, st, n) ==
    IF n = 0 THEN st
    ELSE IF n = 1
         THEN LET it == table[st.rng.pos + 1]
              IN  [KeepIfBetter(st, it) EXCEPT !.rng = it.rng]
         ELSE LET mid == RansacLoop(table, st, n \div 2)
              IN  IF mid.rng.pos >= 0
                  THEN RansacLoop(table, mid, n - (n \div 2))
                  ELSE mid

NoAffine == Affine(0, 0, 0, 0, 0, 0, 1)

\* lines 433-443: the outcome, from the state fin the loop ends in
RansacResult(fin) ==
    IF fin.best_inliers = 0
    THEN [ok |-> FALSE, rng |-> fin.rng]
    ELSE [ok |-> TRUE, rng |-> fin.rng, aff |-> fin.best,
          inliers |-> fin.best_inliers, rms |-> fin.best_rms]

\* ransac_affine (lines 379-444)
ransac_affine(corr, rng) ==
    IF Len(corr) < 3
    THEN [ok |-> FALSE, rng |-> rng]
    ELSE RansacResult(RansacLoop(IterationTable(corr, rng, 0),
                                 [rng |-> rng, best_inliers |-> 0,
                                  best_rms |-> BEST_RMS_INIT, best |-> NoAffine],
                                 RANSAC_ITERATIONS))

(***************************************************************************)
(* stacking_jni.c : bilinear interpolation and warping                     *)
(* Pixel buffers are jbyte sequences (-128..127).                          *)
(***************************************************************************)
\* (unsigned char)pixels[i]
ToU8(b) == b % 256

\* (jbyte)val for val in 0..255
ToJbyte(val) == IF val > 127 THEN val - 256 ELSE val

\* line 452: (xn/den, yn/den), den > 0, is outside the interpolable area
OutOfBounds(width, height, xn, yn, den) ==
    xn < 0 \/ yn < 0 \/ xn >= (width - 1) * den \/ yn >= (height - 1) * den

\* lines 456-467: x0 = (int)x, y0 = (int)y and the indices of the four
\* neighbours read, in the order v00, v10, v01, v11; x, y >= 0
NeighbourIndices(width, xn, yn, den) ==
    LET x0 == xn \div den
        y0 == yn \div den
        x1 == x0 + 1
        y1 == y0 + 1
    IN  <<y0 * width + x0, y0 * width + x1, y1 * width + x0, y1 * width + x1>>

\* the image indices one call of bilinear_sample reads
BilinearReads(width, height, xn, yn, den) ==
    IF OutOfBounds(width, height, xn, yn, den)
    THEN <<>>
    ELSE NeighbourIndices(width, xn, yn, den)

\* bilinear_sample (lines 451-473) at (xn/den, yn/den), den > 0
bilinear_sample(image, width, height, xn, yn, den) ==
    IF OutOfBounds(width, height, xn, yn, den)
    THEN RatZero
    ELSE LET at == NeighbourIndices(width, xn, yn, den)
             fx == xn - (xn \div den) * den          \* fraction, times den
             fy == yn - (yn \div den) * den
             v00 == ToU8(image[at[1] + 1])
             v10 == ToU8(image[at[2] + 1])
             v01 == ToU8(image[at[3] + 1])
             v11 == ToU8(image[at[4] + 1])
             v0 == v00 * (den - fx) + v10 * fx    \* times den
             v1 == v01 * (den - fx) + v11 * fx
         IN  Rat(v0 * (den - fy) + v1 * fy, den * den)

\* InsideSource with a fault: the last column and row count as inside
InsideSourceInclusive(inv, width, height, x, y) ==
    LET src == apply_affine(inv, x, y)
    IN  /\ src[1] >= 0
        /\ src[2] >= 0
        /\ src[1] <= (width - 1) * inv.den
        /\ src[2] <= (height - 1) * inv.den

\* InsideSource with a fault: no lower bound on the source coordinates
InsideSourceNoLowerBound(inv, width, height, x, y) ==
    LET src == apply_affine(inv, x, y)
    IN  /\ src[1] < (width - 1) * inv.den
        /\ src[2] < (height - 1) * inv.den

\* lines 495-498: is reference pixel (x, y) mapped inside the new frame
InsideSource(inv, width, height, x, y) ==
    LET src == apply_affine(inv, x, y)
    IN  /\ src[1] >= 0
        /\ src[2] >= 0
        /\ src[1] < (width - 1) * inv.den
        /\ src[2] < (height - 1) * inv.den

\* WarpInverse with a fault: frame_count is not advanced (line 506 left out)
WarpInverseUncounted(c, image, r) ==
    IF ~r.ok
    THEN c
    ELSE [c EXCEPT
            !.count = [idx \in DOMAIN c.count |->
                          IF /\ c.width > 0
                             /\ c.height > 0
                             /\ InsideSource(r.inv, c.width, c.height,
                                             (idx - 1) % c.width,
                                             (idx - 1) \div c.width)
                          THEN c.count[idx] + 1
                          ELSE c.count[idx]]]

\* lines 486-506: the loop over the reference pixels, with r what
\* invert_affine gave
WarpInverse(c, image, r) ==
    IF ~r.ok
    THEN c                                        \* return, line 483
    ELSE LET X(idx) == (idx - 1) % c.width
             Y(idx) == (idx - 1) \div c.width
             In(idx) == /\ c.width > 0
                        /\ c.height > 0
                        /\ InsideSource(r.inv, c.width, c.height, X(idx), Y(idx))
             Value(idx) ==
                 LET src == apply_affine(r.inv, X(idx), Y(idx))
                 IN  bilinear_sample(image, c.width, c.height,
                                     src[1], src[2], r.inv.den)
         IN  [c EXCEPT
                !.sum_r = [idx \in DOMAIN c.sum_r |->
                              IF In(idx) THEN RatAdd(c.sum_r[idx], Value(idx))
                              ELSE c.sum_r[idx]],
                !.count = [idx \in DOMAIN c.count |->
                              IF In(idx) THEN c.count[idx] + 1
                              ELSE c.count[idx]],
                !.frame_count = c.frame_count + 1]

\* lines 489-502 for the reference pixel (x, y): idx, the source position
\* src / inv.den, whether the pixel is sampled, the image indices read and the
\* index of sum_r and count written
PixelAccess(inv, width, height, x, y, src) ==
    [x |-> x, y |-> y, idx |-> y * width + x, src |-> src,
     sampled |-> InsideSource(inv, width, height, x, y),
     reads |-> IF InsideSource(inv, width, height, x, y)
               THEN BilinearReads(width, height, src[1], src[2], inv.den)
               ELSE <<>>,
     writes |-> IF InsideSource(inv, width, height, x, y)
                THEN <<y * width + x>>
                ELSE <<>>]

\* lines 489-504: the accesses of the loops over y and x, with r what
\* invert_affine gave
WarpAccesses(c, r) ==
    IF ~r.ok
    THEN {}
    ELSE {PixelAccess(r.inv, c.width, c.height, x, y, apply_affine(r.inv, x, y)) :
              x \in 0..(c.width - 1), y \in 0..(c.height - 1)}

\* warp_and_accumulate (lines 476-507)
warp_and_accumulate(c, image, aff) == WarpInverse(c, image, invert_affine(aff))

(***************************************************************************)
(* stacking_jni.c : JNI entry points                                       *)
(***************************************************************************)
\* a null pointer or null Java reference; every other handle or result has
\* null = FALSE
NULL == [null |-> TRUE]

\* initStackingNative (lines 515-561).  calloc of a negative element count
\* fails; calloc of zero elements may return NULL or a pointer.
initStackingNative(width, height, zero_alloc_null) ==
    LET npix == width * height
    IN  IF npix < 0 \/ (npix = 0 /\ zero_alloc_null)
        THEN NULL
        ELSE [null |-> FALSE,
              width |-> width, height |-> height, frame_count |-> 0,
              sum_r |-> [i \in 1..npix |-> RatZero],
              count |-> [i \in 1..npix |-> 0],
              ref_triangles |-> <<>>, num_ref_triangles |-> 0,
              ref_stars |-> <<>>, num_ref_stars |-> 0]

\* result tuples of addFrameNative (lines 640-642, 662-664, 719-721)
Failure(c) == [null |-> FALSE, ok |-> 0, inliers |-> 0, rms |-> [n |-> 0, d |-> 1],
               frame_count |-> c.frame_count]

\* FirstFrameAdd with a fault: the frame is accumulated although
\* form_triangles gave NULL (the test of lines 619-624 left out)
FirstFrameAddUnchecked(c1, pixels, ft) ==
    [ctx |-> [c1 EXCEPT
                !.ref_triangles = ft.tri,
                !.num_ref_triangles = Len(ft.tri),
                !.sum_r = [i \in DOMAIN c1.sum_r |->
                              RatAdd(c1.sum_r[i], <<ToU8(pixels[i]), 1>>)],
                !.count = [i \in DOMAIN c1.count |-> c1.count[i] + 1],
                !.frame_count = c1.frame_count + 1],
     ret |-> [null |-> FALSE, ok |-> 1, inliers |-> 0, rms |-> [n |-> 0, d |-> 1],
              frame_count |-> 1]]

\* lines 618-643: with ft what form_triangles gave for the reference stars
\* now in c1
FirstFrameAdd(c1, pixels, ft) ==
    IF ft.null
    THEN [ctx |-> c1, ret |-> NULL]
    ELSE [ctx |-> [c1 EXCEPT
                     !.ref_triangles = ft.tri,
                     !.num_ref_triangles = Len(ft.tri),
                     !.sum_r = [i \in DOMAIN c1.sum_r |->
                                   RatAdd(c1.sum_r[i], <<ToU8(pixels[i]), 1>>)],
                     !.count = [i \in DOMAIN c1.count |-> c1.count[i] + 1],
                     !.frame_count = c1.frame_count + 1],
          ret |-> [null |-> FALSE, ok |-> 1, inliers |-> 0, rms |-> [n |-> 0, d |-> 1],
                   frame_count |-> 1]]

\* lines 605-617: the reference stars are stored and their triangles formed
FirstFrameRef(c, pixels, ref_stars) ==
    FirstFrameAdd([c EXCEPT !.num_ref_stars = Len(ref_stars),
                            !.ref_stars = ref_stars,
                            !.ref_triangles = <<>>,
                            !.num_ref_triangles = 0],
                  pixels, form_triangles(ref_stars, Len(ref_stars)))

\* FirstFrame with a fault: the reference takes every star of the list
FirstFrameAllStars(c, pixels, stars) == FirstFrameRef(c, pixels, stars)

\* lines 600-644: the first frame becomes the reference
FirstFrame(c, pixels, stars) ==
    FirstFrameRef(c, pixels, Take(stars, Min(Len(stars), MAX_STACKING_STARS)))

\* lines 690-706: RANSAC on the correspondences, if there are 3
Estimate(corr, rng) ==
    IF Len(corr) < 3
    THEN [ok |-> FALSE, rng |-> rng]
    ELSE ransac_affine(corr, rng)

\* lines 654-688: with nt what form_triangles gave for the new frame
MatchNew(ref_triangles, ref_stars, stars, rng, nt) ==
    IF nt.null \/ Len(nt.tri) = 0
    THEN [ok |-> FALSE, rng |-> rng]
    ELSE Estimate(match_triangles(ref_triangles, ref_stars, nt.tri, stars), rng)

\* lines 649-706: triangles of the new frame, matching, RANSAC
Align(ref_triangles, ref_stars, stars, rng) ==
    MatchNew(ref_triangles, ref_stars, stars, rng,
             form_triangles(stars, Min(Len(stars), MAX_STACKING_STARS)))

\* lines 716-722: the success tuple, with c1 the context after warping
Accepted(c1, al) ==
    [ctx |-> c1,
     ret |-> [null |-> FALSE, ok |-> 1, inliers |-> al.inliers, rms |-> al.rms,
              frame_count |-> c1.frame_count],
     rng |-> al.rng, aff |-> al.aff]

\* Refused with a fault: a refused frame is counted
RefusedCounted(c, al) ==
    [ctx |-> [c EXCEPT !.frame_count = c.frame_count + 1],
     ret |-> Failure(c), rng |-> al.rng, aff |-> NoAffine]

\* lines 654-666, 676-688, 694-706: the failure returns of a later frame
Refused(c, al) ==
    [ctx |-> c, ret |-> Failure(c), rng |-> al.rng, aff |-> NoAffine]

\* lines 654-722: with al the outcome of the alignment
Accumulate(c, pixels, al) ==
    IF ~al.ok
    THEN Refused(c, al)
    ELSE Accepted(warp_and_accumulate(c, pixels, al.aff), al)

\* lines 646-722: a later frame is aligned to the reference and accumulated
LaterFrame(c, pixels, stars, rng) ==
    Accumulate(c, pixels, Align(c.ref_triangles, c.ref_stars, stars, rng))

\* lines 600-644 as an outcome of addFrameNative
Reference(f, rng) == [ctx |-> f.ctx, ret |-> f.ret, rng |-> rng, aff |-> NoAffine]

\* addFrameNative with a fault: every frame is taken as the reference
addFrameNativeAlwaysReference(c, pixels, stars, rng) ==
    IF c.null
    THEN [ctx |-> c, ret |-> NULL, rng |-> rng, aff |-> NoAffine]
    ELSE Reference(FirstFrame(c, pixels, stars), rng)

\* addFrameNative (lines 563-723)
addFrameNative(c, pixels, stars, rng) ==
    IF c.null
    THEN [ctx |-> c, ret |-> NULL, rng |-> rng, aff |-> NoAffine]
    ELSE IF c.frame_count = 0
    THEN Reference(FirstFrame(c, pixels, stars), rng)
    ELSE LaterFrame(c, pixels, stars, rng)

\* AveragePixel with a fault: the mean is truncated, not rounded
AveragePixelTruncated(sum, count) ==
    IF count > 0
    THEN LET val == sum[1] \div (sum[2] * count)
             clamped == IF val < 0 THEN 0 ELSE IF val > 255 THEN 255 ELSE val
         IN  ToJbyte(clamped)
    ELSE 0

\* lines 756-766: the mean of one pixel
AveragePixel(sum, count) ==
    IF count > 0
    THEN LET \* (int)(avg + 0.5f) for avg = sum / count >= 0
             val == (2 * sum[1] + sum[2] * count) \div (2 * sum[2] * count)
             clamped == IF val < 0 THEN 0 ELSE IF val > 255 THEN 255 ELSE val
         IN  ToJbyte(clamped)
    ELSE 0

\* getStackedImageNative (lines 725-772)
getStackedImageNative(c) ==
    IF c.null THEN NULL
    ELSE IF c.frame_count = 0 THEN NULL
    ELSE [null |-> FALSE, image |->
          [i \in 1..(c.width * c.height) |-> AveragePixel(c.sum_r[i], c.count[i])]]

(***************************************************************************)
(* astrometry_jni.c : detectStarsNative                                    *)
(* image2xy_run is library code; its outcome is the call's input here: the *)
(* result code and the detected peaks, each [x, y, flux, background].      *)
(* Peak indices are 0-based as in the source.                              *)
(***************************************************************************)
UNIFORMIZE_N == 10

\* lines 122-129 / 133-140: one pass of the insertion sort; key goes behind
\* every index whose value is not smaller
RECURSIVE InsertDescending(_, _, _)
InsertDescending(perm, key, val) ==
    IF perm = <<>> \/ ~(val[Last(perm) + 1] < val[key + 1])
    THEN Append(perm, key)
    ELSE Append(InsertDescending(Front(perm), key, val), Last(perm))

\* lines 113-130, 132-141: the identity permutation of 0..N-1 sorted by val,
\* descending; SortDescending(val, n) is the array after the pass for i = n-1
RECURSIVE SortDescending(_, _)
SortDescending(val, n) ==
    IF n = 0 THEN <<>>
    ELSE InsertDescending(SortDescending(val, n - 1), n - 1, val)

InSeq(s, e) == \E k \in 1..Len(s) : s[k] = e

\* InterleaveStep with a fault: the used flags are not consulted
InterleaveStepNoSkip(out, perm1, perm2, i, N) ==
    LET o1 == Append(out, perm1[i + 1])
    IN  IF Len(o1) < N THEN Append(o1, perm2[i + 1]) ELSE o1

\* lines 145-154: the loop body for rank i, from the output built so far
InterleaveStep(out, perm1, perm2, i, N) ==
    LET o1 == IF ~InSeq(out, perm1[i + 1]) THEN Append(out, perm1[i + 1]) ELSE out
    IN  IF Len(o1) < N /\ ~InSeq(o1, perm2[i + 1])
        THEN Append(o1, perm2[i + 1])
        ELSE o1

\* Interleave with a fault: the raw-signal order is ignored
RECURSIVE InterleaveFluxOnly(_, _, _, _)
InterleaveFluxOnly(perm1, perm2, n, N) ==
    IF n = 0 THEN <<>>
    ELSE Append(InterleaveFluxOnly(perm1, perm2, n - 1, N), perm1[n])

\* lines 143-154: output_order after the ranks 0..n-1
RECURSIVE Interleave(_, _, _, _)
Interleave(perm1, perm2, n, N) ==
    IF n = 0 THEN <<>>
    ELSE LET out == Interleave(perm1, perm2, n - 1, N)
         IN  IF Len(out) < N
             THEN InterleaveStep(out, perm1, perm2, n - 1, N)
             ELSE out

MinOf(S) == CHOOSE m \in S : \A e \in S : m <= e

MaxOf(S) == CHOOSE m \in S : \A e \in S : m >= e

\* lines 222-227: the row's resort indices in ascending order
RECURSIVE Ascending(_)
Ascending(S) ==
    IF S = {} THEN <<>>
    ELSE <<MinOf(S)>> \o Ascending(S \ {MinOf(S)})

\* line 177: (int)(Wf / sqrtf(Wf * Hf / 10) + 0.5f), the largest k with
\* (k - 1/2)^2 <= 10 Wf / Hf
RECURSIVE RoundedGridWidth(_, _, _)
RoundedGridWidth(Wf, Hf, k) ==
    IF (2 * k + 1) * (2 * k + 1) * Hf <= 4 * UNIFORMIZE_N * Wf
    THEN RoundedGridWidth(Wf, Hf, k + 1)
    ELSE k

\* lines 189-196: the bin of the star at resort index i; for the integer
\* coordinates of the model the float quotients truncate as the exact ones
BinOf(star, xmin, ymin, Wf, Hf, NX, NY) ==
    LET ix0 == ((star.x - xmin) * NX) \div Wf
        iy0 == ((star.y - ymin) * NY) \div Hf
        ix == IF ix0 >= NX THEN NX - 1 ELSE IF ix0 < 0 THEN 0 ELSE ix0
        iy == IF iy0 >= NY THEN NY - 1 ELSE IF iy0 < 0 THEN 0 ELSE iy0
    IN  iy * NX + ix

\* lines 163-173: the extent of the stars' positions
Extent(peaks, order) ==
    LET xs == {peaks[order[k] + 1].x : k \in 1..Len(order)}
        ys == {peaks[order[k] + 1].y : k \in 1..Len(order)}
    IN  [xmin |-> MinOf(xs), ymin |-> MinOf(ys),
         Wf |-> MaxOf(xs) - MinOf(xs), Hf |-> MaxOf(ys) - MinOf(ys)]

\* lines 176-181: the grid NX x NY for the extent e, from NX before clamping
GridFrom(NX0) ==
    LET NX == IF NX0 < 1 THEN 1 ELSE NX0
        \* (int)(10 / NX + 0.5f)
        NY0 == (2 * UNIFORMIZE_N + NX) \div (2 * NX)
        NY == IF NY0 < 1 THEN 1 ELSE NY0
    IN  [NX |-> NX, NY |-> NY, nbins |-> NX * NY]

GridOf(e) == GridFrom(RoundedGridWidth(e.Wf, e.Hf, 0))

\* lines 188-198: bin_assign, here 1-based: bin_assign[i + 1] is the bin of
\* the star at resort index i
BinAssign(peaks, order, e, g) ==
    [k \in 1..Len(order) |->
        BinOf(peaks[order[k] + 1], e.xmin, e.ymin, e.Wf, e.Hf, g.NX, g.NY)]

\* RoundRobin with a fault: the bins are emitted whole, one after the other
RoundRobinByBin(order, bin_assign, nbins) ==
    LET N == Len(order)
        bin_list(b) == Ascending({i \in 0..(N - 1) : bin_assign[i + 1] = b})
        Bins[b \in 0..nbins] ==
            IF b = 0 THEN <<>>
            ELSE Bins[b - 1] \o
                 [k \in 1..Len(bin_list(b - 1)) |-> order[bin_list(b - 1)[k] + 1]]
    IN  Bins[nbins]

\* RoundRobin with a fault: a round is not sorted (lines 222-228 left out),
\* its stars stay in the order of their bins
RoundRobinUnsorted(order, bin_assign, nbins) ==
    LET N == Len(order)
        bin_list(b) == Ascending({i \in 0..(N - 1) : bin_assign[i + 1] = b})
        maxlen == MaxOf({Len(bin_list(b)) : b \in 0..(nbins - 1)})
        thisrow(round) ==
            LET Row[b \in 0..nbins] ==
                    IF b = 0 THEN <<>>
                    ELSE IF round < Len(bin_list(b - 1))
                         THEN Append(Row[b - 1], bin_list(b - 1)[round + 1])
                         ELSE Row[b - 1]
            IN  Row[nbins]
        Rounds[r \in 0..maxlen] ==
            IF r = 0 THEN <<>>
            ELSE Rounds[r - 1] \o
                 [k \in 1..Len(thisrow(r - 1)) |->
                     order[thisrow(r - 1)[k] + 1]]
    IN  Rounds[maxlen]

\* lines 200-234: the round-robin over the bins
RoundRobin(order, bin_assign, nbins) ==
    LET N == Len(order)
        \* bin_lists[b]: the resort indices of bin b, ascending
        bin_list(b) == Ascending({i \in 0..(N - 1) : bin_assign[i + 1] = b})
        maxlen == MaxOf({Len(bin_list(b)) : b \in 0..(nbins - 1)})
        thisrow(round) ==
            Ascending({bin_list(b)[round + 1] :
                          b \in {bb \in 0..(nbins - 1) :
                                    round < Len(bin_list(bb))}})
        Rounds[r \in 0..maxlen] ==
            IF r = 0 THEN <<>>
            ELSE Rounds[r - 1] \o
                 [k \in 1..Len(thisrow(r - 1)) |->
                     order[thisrow(r - 1)[k] + 1]]
    IN  Rounds[maxlen]

\* lines 175-243 for the extent e and its grid g
UniformizeOn(peaks, order, e, g) ==
    RoundRobin(order, BinAssign(peaks, order, e, g), g.nbins)

\* lines 162-244: output_order after the uniformisation block
Uniformize(peaks, order) ==
    IF ~(Extent(peaks, order).Wf > 0 /\ Extent(peaks, order).Hf > 0)
    THEN order
    ELSE UniformizeOn(peaks, order, Extent(peaks, order),
                      GridOf(Extent(peaks, order)))

\* lines 175-198 as seen after the call: whether the block ran, its number
\* of bins and its bin_assign
BinsOf(peaks, order) ==
    IF ~(Extent(peaks, order).Wf > 0 /\ Extent(peaks, order).Hf > 0)
    THEN [on |-> FALSE, nbins |-> 0, bin_assign |-> <<>>]
    ELSE [on |-> TRUE, nbins |-> GridOf(Extent(peaks, order)).nbins,
          bin_assign |-> BinAssign(peaks, order, Extent(peaks, order),
                                   GridOf(Extent(peaks, order)))]

\* lines 247-262: the result array, (x, y, flux) of each star in order
ResultArray(peaks, order) ==
    [k \in 1..Len(order) |->
        <<peaks[order[k] + 1].x, peaks[order[k] + 1].y, peaks[order[k] + 1].flux>>]

\* detectStarsNative (lines 27-273).  result and peaks are what image2xy_run
\* left in params; alloc_ok tells whether the allocations of lines 48, 100-104
\* and 248 succeed.  locals holds perm1, perm2, output_order before and
\* after the uniformisation block, and the block's bins.
detectStarsNative(result, peaks, alloc_ok) ==
    LET N == Len(peaks)
        flux == [k \in 1..N |-> peaks[k].flux]
        rawsignal == [k \in 1..N |-> peaks[k].flux + peaks[k].background]
        perm1 == SortDescending(flux, N)
        perm2 == SortDescending(rawsignal, N)
        resorted == Interleave(perm1, perm2, N, N)
        output_order == Uniformize(peaks, resorted)
    IN  IF ~alloc_ok \/ result # 0 \/ N = 0
        THEN [ret |-> NULL, locals |-> <<>>]
        ELSE [ret |-> [null |-> FALSE, stars |-> ResultArray(peaks, output_order)],
              locals |-> [perm1 |-> perm1, perm2 |-> perm2,
                          resorted |-> resorted, output_order |-> output_order,
                          bins |-> BinsOf(peaks, resorted)]]

(***************************************************************************)
(* astrometry_jni.c : solveFieldNative                                     *)
(* The solver and the index loader are library code (solver_new,           *)
(* solver_run, index_load, ...): the model keeps of the solver_t what the  *)
(* entry point reads and writes, and takes what solver_run and index_load  *)
(* find as inputs of the step that calls them.                             *)
(***************************************************************************)
\* line 371-372
depths == <<10, 20, 30, 40, 50, 60, 70, 80, 90, 100,
            110, 120, 130, 140, 150, 160, 170, 180, 190, 200>>

\* line 373
num_depths == Len(depths)

\* no match: what solver_reset_best_match leaves
NoMatch == [crval |-> <<0, 0>>, crpix |-> <<0, 0>>, cd |-> <<0, 0, 0, 0>>,
            pixscale |-> 0, rotation |-> 0, logodds |-> 0]

\* solver_new and the configuration of lines 310-347, as far as the entry
\* point uses the solver later
solver_new ==
    [indexes |-> <<>>, startobj |-> 0, endobj |-> 0,
     numtries |-> 0, have_best_match |-> FALSE, best_match_solves |-> FALSE,
     best_match |-> NoMatch]

\* line 359
solver_add_index(solver, idx) ==
    [solver EXCEPT !.indexes = Append(solver.indexes, idx)]

\* line 403
solver_reset_counters(solver) == [solver EXCEPT !.numtries = 0]

\* line 404
solver_reset_best_match(solver) ==
    [solver EXCEPT !.have_best_match = FALSE, !.best_match_solves = FALSE,
                   !.best_match = NoMatch]

\* line 405: the run tries quads and leaves the best match it found, if any
solver_run(solver, outcome) ==
    [solver EXCEPT !.numtries = solver.numtries + 1,
                   !.have_best_match = solver.have_best_match \/ outcome.found,
                   !.best_match_solves = solver.best_match_solves \/ outcome.solves,
                   !.best_match = IF outcome.found THEN outcome.match
                                  ELSE solver.best_match]

\* line 407
solver_did_solve(solver) == solver.best_match_solves

\* line 357: index_load gives the index of a path that loads, NULL otherwise
index_load(path) ==
    IF path.loads THEN [null |-> FALSE, name |-> path.name] ELSE [null |-> TRUE]

\* LoadIndex with a fault: an index that failed to load is added as well
AddIfLoadedOrNot(solver, idx) ==
    solver_add_index(solver, IF idx.null THEN "none" ELSE idx.name)

\* lines 358-363
AddIfLoaded(solver, idx) ==
    IF ~idx.null THEN solver_add_index(solver, idx.name) ELSE solver

\* lines 353-366: the loop body for the path at index s.i
LoadOne(s) ==
    [s EXCEPT !.solver = AddIfLoaded(s.solver, index_load(s.paths[s.i + 1])),
              !.i = s.i + 1,
              !.pc = IF s.i + 1 < Len(s.paths) THEN "load" ELSE "depth"]

\* LoopContinues with a fault: the loop goes on after a window solved
LoopContinuesAfterSolve(s) == s.d < num_depths

\* line 380: the condition of the depth loop
LoopContinues(s) == s.d < num_depths /\ s.solved = 0

\* WindowEnd with a fault: endobj is not clamped
WindowEndUnclamped(depth, numStars) == depth

\* lines 382, 392-394
WindowEnd(depth, numStars) == IF depth > numStars THEN numStars ELSE depth

\* lines 399-404: the solver as solver_run finds it
PrepareRun(solver, startobj, endobj) ==
    solver_reset_best_match(
        solver_reset_counters([solver EXCEPT !.startobj = startobj,
                                             !.endobj = endobj]))

\* lines 405-410, with ready the solver as prepared and ran the solver as
\* solver_run left it
AfterRun(s, ready, ran) ==
    [s EXCEPT !.solver = ran,
              !.solved = IF solver_did_solve(ran) THEN 1 ELSE s.solved,
              !.lasthi = depths[s.d + 1],
              !.d = s.d + 1,
              !.runs = Append(s.runs,
                              [depth |-> depths[s.d + 1],
                               startobj |-> ready.startobj,
                               endobj |-> ready.endobj,
                               numtries |-> ready.numtries,
                               have_best_match |-> ready.have_best_match,
                               indexes |-> ready.indexes,
                               solved |-> solver_did_solve(ran)])]

\* lines 399-410
RunWindow(s, ready, outcome) == AfterRun(s, ready, solver_run(ready, outcome))

\* lines 381-410: one pass of the depth loop; the break of line 388 leaves
\* the loop
DepthBody(s, outcome) ==
    IF s.lasthi >= s.numStars
    THEN [s EXCEPT !.lasthi = depths[s.d + 1], !.pc = "result"]
    ELSE RunWindow(s, PrepareRun(s.solver, s.lasthi,
                                 WindowEnd(depths[s.d + 1], s.numStars)),
                   outcome)

\* lines 414-443: the 12 values
ResultArray12(solved, mo) ==
    IF solved # 0
    THEN <<1, mo.crval[1], mo.crval[2], mo.crpix[1], mo.crpix[2],
           mo.cd[1], mo.cd[2], mo.cd[3], mo.cd[4],
           mo.pixscale, mo.rotation, mo.logodds>>
    ELSE <<0, 0, 0, 0, 0, 0, 0, 0, 0, 0, 0, 0>>

\* lines 413-448
ReturnOf(s) ==
    [s EXCEPT !.pc = "done",
              !.ret = [null |-> FALSE,
                       result |-> ResultArray12(s.solved, s.solver.best_match)]]

\* lines 299-351, 371-378: the call up to the index loop
solveFieldNative(numStars, paths, stars_ok, solver_ok) ==
    IF ~stars_ok \/ ~solver_ok
    THEN [pc |-> "done", numStars |-> numStars, paths |-> paths, i |-> 0,
          solver |-> solver_new, solved |-> 0, lasthi |-> 0, d |-> 0,
          runs |-> <<>>, ret |-> NULL, entered |-> FALSE]
    ELSE [pc |-> IF Len(paths) > 0 THEN "load" ELSE "depth",
          numStars |-> numStars, paths |-> paths, i |-> 0,
          solver |-> solver_new, solved |-> 0, lasthi |-> 0, d |-> 0,
          runs |-> <<>>, ret |-> NULL, entered |-> TRUE]

(***************************************************************************)
(* Inputs of the model                                                     *)
(***************************************************************************)
Star(x, y) == [x |-> x, y |-> y, flux |-> 1]

\* star lists handed to addFrameNative: two stars; the corners of a square; an
\* isosceles triangle; the same triangle twice as large; one more star than
\* MAX_STACKING_STARS, all at one position
StarsTwo == <<Star(0, 0), Star(2, 1)>>
StarsSquare == <<Star(0, 0), Star(2, 0), Star(0, 2), Star(2, 2)>>
StarsIsosceles == <<Star(0, 0), Star(2, 0), Star(1, 2)>>
StarsIsoscelesBig == <<Star(0, 0), Star(4, 0), Star(2, 4)>>
StarsMany == [i \in 1..(MAX_STACKING_STARS + 1) |-> Star(0, 0)]

\* pixel buffers (jbyte): uniform 100; a 3x3 ramp 0,50,100,150,200,255,10,20,30;
\* the ramp with one byte too many
FrameUniform == <<100, 100, 100, 100, 100, 100, 100, 100, 100>>
FrameRamp == <<0, 50, 100, -106, -56, -1, 10, 20, 30>>
FrameLong == FrameRamp \o <<77>>

\* the (pixels, stars) arguments of addFrameNative
FrameInputs ==
    {[pixels |-> FrameRamp, stars |-> StarsSquare],
     [pixels |-> FrameUniform, stars |-> StarsIsoscelesBig],
     [pixels |-> FrameLong, stars |-> StarsIsosceles],
     [pixels |-> FrameRamp, stars |-> StarsTwo],
     [pixels |-> FrameUniform, stars |-> StarsMany]}

\* (width, height) arguments of initStackingNative
Dims == {<<3, 3>>, <<-1, -1>>, <<0, 3>>, <<-1, 3>>}

\* the value streams rand() can produce after srand(time ^ pid)
Streams == {<<0, 1, 2>>, <<3, 4, 5>>, <<0, 1, 5>>, <<0>>, <<0, 1, 5, 3, 4, 5, 2>>}

\* what image2xy_run can leave in params: result codes and peaks
Results == {0, -1}

Peak(x, y, flux, background) ==
    [x |-> x, y |-> y, flux |-> flux, background |-> background]

PeakChoices ==
    {Peak(0, 0, 2, 0), Peak(1, 1, 1, 2), Peak(9, 9, 2, 1), Peak(9, 0, 3, 0),
     Peak(0, 9, 1, 0), Peak(1, 0, 3, 1), Peak(5, 5, 1, 1)}

\* arguments of solveFieldNative: the index paths, each loading or not
Path(name, loads) == [name |-> name, loads |-> loads]

PathChoices == {Path("a", TRUE), Path("b", FALSE), Path("c", TRUE)}

\* what a solver run can find: nothing, a match that is not kept, a match
\* that solves
Match(ra, dec, rotation, logodds) ==
    [crval |-> <<ra, dec>>, crpix |-> <<2, 2>>,
     cd |-> IF rotation = 0 THEN <<1, 0, 0, 1>> ELSE <<0, 1, -1, 0>>,
     pixscale |-> 3600, rotation |-> rotation, logodds |-> logodds]

RunOutcomes ==
    {[found |-> FALSE, solves |-> FALSE, match |-> NoMatch],
     [found |-> TRUE, solves |-> FALSE, match |-> Match(10, 20, 0, 5)],
     [found |-> TRUE, solves |-> TRUE, match |-> Match(10, 20, 0, 30)],
     [found |-> TRUE, solves |-> TRUE, match |-> Match(50, -5, 90, 40)]}

(***************************************************************************)
(* The JNI entry points as a state machine                                 *)
(***************************************************************************)
\* bound on the addFrameNative calls of a behaviour
MaxFrames == 2

\* bound on the peaks of one detection
MaxPeaks == 4

\* bound on the peaks of a long detection
MaxLongPeaks == 11

\* positions spread over the field, and positions close to one corner
SpreadAt(k) == <<k % 10, (3 * k + k \div 10) % 10>>

ClusterPositions ==
    <<<<6, 6>>, <<7, 6>>, <<8, 6>>, <<9, 6>>, <<6, 7>>, <<7, 7>>, <<8, 7>>,
      <<6, 9>>, <<7, 8>>, <<8, 8>>, <<9, 8>>, <<7, 9>>, <<8, 9>>, <<9, 9>>>>

\* the k-th peak of a long detection: the first c peaks are spread, the
\* others clustered; brightness falls with k, or is mixed
LongPeak(c, mixed, k) ==
    LET pos == IF k <= c THEN SpreadAt(k) ELSE ClusterPositions[k - c]
    IN  Peak(pos[1], pos[2],
             IF mixed THEN ((7 * k) % 13) + 1 ELSE 20 - k,
             IF mixed THEN (3 * k) % 4 ELSE 0)

LongPeakLists ==
    {[k \in 1..n |-> LongPeak(c, mixed, k)] :
        n \in 10..MaxLongPeaks, c \in 1..MaxLongPeaks, mixed \in BOOLEAN}

\* bound on the numStars argument of solveFieldNative
MaxStars == 205

\* bound on the index paths of one solveFieldNative call
MaxPaths == 2

\* the paths of one call are distinct
PathLists ==
    UNION {{s \in [1..n -> PathChoices] : \A i, j \in 1..n : i # j => s[i] # s[j]} :
              n \in 0..MaxPaths}

\* bound on the addFrameNative calls on the second handle
MaxOtherFrames == 2

\* the peaks of one detection are distinct
ShortPeakLists ==
    UNION {{s \in [1..n -> PeakChoices] : \A i, j \in 1..n : i # j => s[i] # s[j]} :
              n \in 0..MaxPeaks}

PeakLists == ShortPeakLists \cup LongPeakLists

VARIABLES
    ctx,       \* the stacking_context_t behind the handle, NULL when there is none
    rng,       \* the state of the C library's rand()
    supplied,  \* the (pixels, stars) arguments of the addFrameNative calls so far
    last,      \* the last JNI call: its result, ctx before it, what else it saw
    other,     \* a second stacking handle: its context, the addFrameNative calls on it
    sf         \* the solveFieldNative call: its position, locals and solver

vars == <<ctx, rng, supplied, last, other, sf>>

NoCall == [op |-> "none", pre |-> NULL, ret |-> NULL,
           aff |-> NoAffine, width |-> 0, height |-> 0,
           result |-> 0, peaks |-> <<>>, alloc_ok |-> TRUE, locals |-> <<>>]

\* no solveFieldNative call is running
NoSolve == [pc |-> "idle"]

Init ==
    /\ ctx = NULL
    /\ rng = [stream |-> <<0>>, pos |-> 0]
    /\ supplied = <<>>
    /\ last = NoCall
    /\ other = [ctx |-> NULL, calls |-> 0]
    /\ sf = NoSolve

\* the handle is created before frames are supplied
InitStacking ==
    /\ ctx.null
    /\ supplied = <<>>
    /\ \E dim \in Dims, stream \in Streams, zero_alloc_null \in BOOLEAN :
          /\ ctx' = initStackingNative(dim[1], dim[2], zero_alloc_null)
          /\ rng' = [stream |-> stream, pos |-> 0]     \* srand, line 532
          /\ last' = [NoCall EXCEPT !.op = "init", !.pre = ctx, !.ret = ctx',
                                    !.width = dim[1], !.height = dim[2]]
    /\ UNCHANGED <<supplied, other, sf>>

AddFrame ==
    /\ Len(supplied) < MaxFrames
    /\ \E in \in FrameInputs :
          \E r \in {addFrameNative(ctx, in.pixels, in.stars, rng)} :
              /\ ctx' = r.ctx
              /\ rng' = r.rng
              /\ supplied' = Append(supplied, in)
              /\ last' = [NoCall EXCEPT !.op = "add", !.pre = ctx, !.ret = r.ret,
                                        !.aff = r.aff]
    /\ UNCHANGED <<other, sf>>

GetStackedImage ==
    /\ last' = [NoCall EXCEPT !.op = "get", !.pre = ctx,
                              !.ret = getStackedImageNative(ctx)]
    /\ UNCHANGED <<ctx, rng, supplied, other, sf>>

Next ==
    \/ InitStacking
    \/ AddFrame
    \/ GetStackedImage

Spec == Init /\ [][Next]_vars

\* detectStarsNative keeps no state between calls: one call shows every outcome
DetectStars ==
    /\ last.op = "none"
    /\ \E result \in Results, peaks \in PeakLists, alloc_ok \in BOOLEAN :
          \E r \in {detectStarsNative(result, peaks, alloc_ok)} :
              last' = [NoCall EXCEPT !.op = "detect", !.ret = r.ret,
                                     !.result = result, !.peaks = peaks,
                                     !.alloc_ok = alloc_ok, !.locals = r.locals]
    /\ UNCHANGED <<ctx, rng, supplied, other, sf>>

NextDetect == DetectStars

SpecDetect == Init /\ [][NextDetect]_vars


\* solveFieldNative, lines 299-351: the call up to the index loop
SolveFieldCall ==
    /\ sf.pc = "idle"
    /\ \E numStars \in 0..MaxStars, paths \in PathLists,
          stars_ok \in BOOLEAN, solver_ok \in BOOLEAN :
          sf' = solveFieldNative(numStars, paths, stars_ok, solver_ok)
    /\ UNCHANGED <<ctx, rng, supplied, last, other>>

\* lines 353-366: one pass of the index loop
LoadIndex ==
    /\ sf.pc = "load"
    /\ sf' = LoadOne(sf)
    /\ UNCHANGED <<ctx, rng, supplied, last, other>>

\* lines 380-411: one pass of the depth loop; a run solves only with an
\* index loaded
DepthIteration ==
    /\ sf.pc = "depth"
    /\ LoopContinues(sf)
    /\ \E outcome \in RunOutcomes :
          /\ outcome.solves => sf.solver.indexes # <<>>
          /\ sf' = DepthBody(sf, outcome)
    /\ UNCHANGED <<ctx, rng, supplied, last, other>>

\* lines 413-448: the loop is left, the result is built and returned
ReturnResult ==
    /\ \/ sf.pc = "result"
       \/ sf.pc = "depth" /\ ~LoopContinues(sf)
    /\ sf' = ReturnOf(sf)
    /\ UNCHANGED <<ctx, rng, supplied, last, other>>

NextSolve ==
    \/ SolveFieldCall
    \/ LoadIndex
    \/ DepthIteration
    \/ ReturnResult

SpecSolve == Init /\ [][NextSolve]_vars

\* the (pixels, stars) arguments of the addFrameNative calls on the second
\* handle
OtherInputs == {[pixels |-> FrameRamp, stars |-> StarsSquare]}

\* initStackingNative for a second handle, in the process that holds the
\* first
InitStackingOther ==
    /\ ~ctx.null
    /\ other.ctx.null
    /\ other.calls = 0
    /\ \E stream \in Streams :
          /\ other' = [ctx |-> initStackingNative(3, 3, FALSE), calls |-> 0]
          /\ rng' = [stream |-> stream, pos |-> 0]     \* srand, line 532
          /\ last' = [NoCall EXCEPT !.op = "init_other", !.pre = other.ctx,
                                    !.ret = other'.ctx,
                                    !.width = 3, !.height = 3]
    /\ UNCHANGED <<ctx, supplied, sf>>

\* addFrameNative on the second handle
AddFrameOther ==
    /\ ~other.ctx.null
    /\ other.calls < MaxOtherFrames
    /\ \E in \in OtherInputs :
          \E r \in {addFrameNative(other.ctx, in.pixels, in.stars, rng)} :
              /\ other' = [ctx |-> r.ctx, calls |-> other.calls + 1]
              /\ rng' = r.rng
              /\ last' = [NoCall EXCEPT !.op = "add_other", !.pre = other.ctx,
                                        !.ret = r.ret, !.aff = r.aff]
    /\ UNCHANGED <<ctx, supplied, sf>>

\* two handles of one process, their calls interleaved
NextTwo ==
    \/ InitStacking
    \/ AddFrame
    \/ GetStackedImage
    \/ InitStackingOther
    \/ AddFrameOther

SpecTwo == Init /\ [][NextTwo]_vars

(***************************************************************************)
(* The alignment functions of stacking_jni.c on their own: each step       *)
(* applies one of them to arguments addFrameNative can pass                *)
(***************************************************************************)
\* bound on the side of the star lattices
MaxGrid == 3

\* an n x n lattice of stars, one pixel apart
StarsGrid(n) == [k \in 1..(n * n) |-> Star((k - 1) % n, (k - 1) \div n)]

\* five stars, all distances different
StarsScalene == <<Star(0, 0), Star(5, 0), Star(1, 3), Star(7, 6), Star(2, 9)>>

\* star lists of a frame
StarLists ==
    {StarsSquare, StarsIsosceles, StarsIsoscelesBig, StarsScalene, StarsTwo}
        \cup {StarsGrid(n) : n \in 2..MaxGrid}

\* lines 163-206 for one star i and one pair of its neighbours, at the places
\* a < b of its neighbour list; the same triangle with the pair swapped
FormTriangle ==
    /\ last.op = "none"
    /\ \E stars \in StarLists :
          \E i \in 0..(Min(Len(stars), MAX_STACKING_STARS) - 1) :
              \E nb \in {NearestNeighbors(stars, Min(Len(stars), MAX_STACKING_STARS), i)} :
                  \E a, b \in 1..Min(Len(nb), NUM_NEIGHBORS) :
                      /\ a < b
                      /\ last' = [NoCall EXCEPT
                                    !.op = "triangle",
                                    !.ret = Triangle(stars, i, nb[a].idx, nb[b].idx),
                                    !.locals = [stars |-> stars, i |-> i,
                                                idx_a |-> nb[a].idx,
                                                idx_b |-> nb[b].idx,
                                                swapped |-> Triangle(stars, i, nb[b].idx,
                                                                     nb[a].idx)]]
    /\ UNCHANGED <<ctx, rng, supplied, other, sf>>

\* match_triangles on the triangles of a reference and of a new star list
MatchTriangles ==
    /\ last.op = "none"
    /\ \E ref_stars \in StarLists, new_stars \in StarLists :
          \E rt \in {form_triangles(ref_stars, Len(ref_stars))},
             nt \in {form_triangles(new_stars, Len(new_stars))} :
              /\ ~rt.null
              /\ ~nt.null
              /\ last' = [NoCall EXCEPT
                            !.op = "match",
                            !.ret = match_triangles(rt.tri, ref_stars, nt.tri, new_stars),
                            !.locals = [ref_tri |-> rt.tri, ref_stars |-> ref_stars,
                                        new_tri |-> nt.tri, new_stars |-> new_stars]]
    /\ UNCHANGED <<ctx, rng, supplied, other, sf>>

\* pairs (ref, new) of star lists whose correspondences RANSAC is run on
RansacStarPairs ==
    {<<StarsSquare, StarsSquare>>, <<StarsIsosceles, StarsIsosceles>>,
     <<StarsIsosceles, StarsIsoscelesBig>>, <<StarsScalene, StarsScalene>>,
     <<StarsGrid(2), StarsSquare>>, <<StarsScalene, StarsIsosceles>>,
     <<StarsIsoscelesBig, StarsIsoscelesBig>>}

\* the value streams of rand(), and one on which ten draws in a row repeat
\* an index drawn before
RansacStreams == Streams \cup {<<0, 1, 0, 1, 0, 1, 0, 1, 0, 1, 0, 1>>}

\* ransac_affine on the correspondences of a pair of star lists, from any
\* state of the generator; locals.table holds what the loop body computes
\* from each state of the generator
Ransac ==
    /\ last.op = "none"
    /\ \E pair \in RansacStarPairs, stream \in RansacStreams :
          \E pos \in 0..(Len(stream) - 1) :
              \E corr \in {match_triangles(
                                form_triangles(pair[1], Len(pair[1])).tri, pair[1],
                                form_triangles(pair[2], Len(pair[2])).tri, pair[2])} :
                  last' = [NoCall EXCEPT
                              !.op = "ransac",
                              !.ret = ransac_affine(corr, [stream |-> stream, pos |-> pos]),
                              !.locals = [corr |-> corr,
                                          rng |-> [stream |-> stream, pos |-> pos],
                                          table |-> IF Len(corr) >= 3
                                                    THEN IterationTable(
                                                             corr,
                                                             [stream |-> stream,
                                                              pos |-> pos], 0)
                                                    ELSE <<>>]]
    /\ UNCHANGED <<ctx, rng, supplied, other, sf>>

MaxDim == 3

\* (width, height) of the accumulator and the frame, both at least 2
WarpDims == {<<w, h>> : w \in 2..MaxDim, h \in 2..MaxDim}

\* the transforms RANSAC may hand to warp_and_accumulate: identity, half
\* pixel shifts both ways, a shift off the frame, scale 2, scale 1/2, a
\* quarter turn, a flip, a shear by thirds, and a singular one
WarpAffines ==
    {Affine(1, 0, 0, 1, 0, 0, 1),
     Affine(2, 0, 0, 2, 1, 1, 2),
     Affine(2, 0, 0, 2, -1, -1, 2),
     Affine(1, 0, 0, 1, 5, 5, 1),
     Affine(2, 0, 0, 2, 0, 0, 1),
     Affine(1, 0, 0, 1, 0, 0, 2),
     Affine(0, -1, 1, 0, 2, 0, 1),
     Affine(-1, 0, 0, 1, 2, 0, 1),
     Affine(3, 1, 0, 3, -1, -2, 3),
     Affine(0, 0, 0, 0, 0, 0, 1)}

\* a frame of npix pixels (jbyte)
WarpImage(npix) == [i \in 1..npix |-> ToJbyte((50 * i) % 256)]

\* warp_and_accumulate of a frame into a fresh accumulator; locals.accesses
\* holds the image reads and accumulator writes of each reference pixel
Warp ==
    /\ last.op = "none"
    /\ \E dim \in WarpDims, aff \in WarpAffines :
          \E c \in {initStackingNative(dim[1], dim[2], FALSE)} :
              last' = [NoCall EXCEPT
                          !.op = "warp",
                          !.pre = c,
                          !.width = dim[1],
                          !.height = dim[2],
                          !.aff = aff,
                          !.ret = warp_and_accumulate(c, WarpImage(dim[1] * dim[2]), aff),
                          !.locals = [inv |-> invert_affine(aff),
                                      accesses |-> WarpAccesses(c, invert_affine(aff))]]
    /\ UNCHANGED <<ctx, rng, supplied, other, sf>>

NextAlign ==
    \/ FormTriangle
    \/ MatchTriangles
    \/ Ransac
    \/ Warp

SpecAlign == Init /\ [][NextAlign]_vars
(***************************************************************************)
(* Properties of the accumulator (specification Spec)                      *)
(***************************************************************************)
\* the last call was addFrameNative on a live handle
Added == last.op = "add" /\ ~last.pre.null

\* its (pixels, stars) arguments
Arg == Last(supplied)

RatEq(p, q) == p[1] * q[2] = q[1] * p[2]

SameAccumulator(c1, c2) ==
    /\ c1.sum_r = c2.sum_r
    /\ c1.count = c2.count
    /\ c1.frame_count = c2.frame_count

\* C1: an addFrameNative call that reports failure (a failure tuple with
\* ok = 0, or no result at all) leaves every sum, every count and
\* frame_count as they were before the call.
C1_FailureLeavesAccumulator ==
    (Added /\ (last.ret.null \/ last.ret.ok = 0))
        => SameAccumulator(ctx, last.pre)

\* C1 happens: a later frame with at least 3 stars was refused after a frame
\* had been accumulated, and the accumulator is not empty
C1_Witness ==
    /\ Added
    /\ ~last.ret.null
    /\ last.ret.ok = 0
    /\ last.pre.frame_count >= 1
    /\ Len(Arg.stars) >= 3
    /\ \E i \in DOMAIN ctx.count : ctx.count[i] >= 1

\* C2: a call reports ok = 1 exactly when it advanced frame_count by one,
\* and ok = 0 exactly when frame_count stayed.
C2_OkIffFrameCounted ==
    (Added /\ ~last.ret.null)
        => /\ last.ret.ok = 1 => ctx.frame_count = last.pre.frame_count + 1
           /\ last.ret.ok = 0 => ctx.frame_count = last.pre.frame_count

\* C3: the first accepted frame of a fresh accumulator stores the first
\* min(n, 50) stars and their triangles as the reference, makes every sum
\* the frame's pixel and every count 1, sets frame_count to 1 and returns
\* (1, 0, 0, 1).
C3_FirstFrame ==
    (Added /\ last.pre.frame_count = 0 /\ ~last.ret.null /\ last.ret.ok = 1)
        => /\ ctx.num_ref_stars = Min(Len(Arg.stars), MAX_STACKING_STARS)
           /\ Len(ctx.ref_stars) = ctx.num_ref_stars
           /\ \A k \in 1..ctx.num_ref_stars : ctx.ref_stars[k] = Arg.stars[k]
           /\ ctx.ref_triangles = form_triangles(ctx.ref_stars, ctx.num_ref_stars).tri
           /\ ctx.num_ref_triangles = Len(ctx.ref_triangles)
           /\ \A i \in 1..(ctx.width * ctx.height) :
                 /\ RatEq(ctx.sum_r[i], <<ToU8(Arg.pixels[i]), 1>>)
                 /\ ctx.count[i] = 1
           /\ ctx.frame_count = 1
           /\ last.ret.inliers = 0
           /\ last.ret.rms.n = 0
           /\ last.ret.frame_count = 1

\* C3 happens: a first frame with more than 50 stars was accepted
C3_Witness ==
    /\ Added
    /\ last.pre.frame_count = 0
    /\ ~last.ret.null
    /\ last.ret.ok = 1
    /\ Len(Arg.stars) > MAX_STACKING_STARS
    /\ ctx.width * ctx.height > 1

\* the position M^-1 ((x, y) - t) by Cramer's rule: numerators xn, yn over a
\* positive den; none when M is singular
PreImage(aff, x, y) ==
    LET det == aff.a * aff.d - aff.b * aff.c
        px == x * aff.den - aff.tx
        py == y * aff.den - aff.ty
        s == IF det < 0 THEN -1 ELSE 1
    IN  [none |-> det = 0,
         xn |-> s * (aff.d * px - aff.b * py),
         yn |-> s * (aff.a * py - aff.c * px),
         den |-> s * det]

\* the bilinear interpolation of the W-wide image at (xn/den, yn/den)
Interpolated(image, W, xn, yn, den) ==
    LET x0 == xn \div den
        y0 == yn \div den
        fx == xn - x0 * den
        fy == yn - y0 * den
        P(x, y) == ToU8(image[y * W + x + 1])
    IN  <<  (den - fx) * (den - fy) * P(x0, y0)
          + fx * (den - fy) * P(x0 + 1, y0)
          + (den - fx) * fy * P(x0, y0 + 1)
          + fx * fy * P(x0 + 1, y0 + 1),
          den * den >>

\* is reference pixel idx (1-based, row-major) mapped into [0,W-1) x [0,H-1)
Covered(aff, W, H, idx) ==
    /\ W > 0
    /\ H > 0
    /\ LET p == PreImage(aff, (idx - 1) % W, (idx - 1) \div W)
       IN  /\ ~p.none
           /\ 0 <= p.xn /\ p.xn < (W - 1) * p.den
           /\ 0 <= p.yn /\ p.yn < (H - 1) * p.den

\* C4: an accepted later frame with affine (M, t) adds, at every reference
\* pixel whose inverse-mapped position lies in [0,W-1) x [0,H-1), one to the
\* count and the bilinear sample of the new frame to the sum, and leaves
\* every other pixel's sum and count alone.
C4_WarpPerPixel ==
    (Added /\ last.pre.frame_count >= 1 /\ ~last.ret.null /\ last.ret.ok = 1)
        => \A idx \in DOMAIN last.pre.sum_r :
              LET W == last.pre.width
                  H == last.pre.height
              IN  IF Covered(last.aff, W, H, idx)
                  THEN LET p == PreImage(last.aff, (idx - 1) % W, (idx - 1) \div W)
                       IN  /\ ctx.count[idx] = last.pre.count[idx] + 1
                           /\ RatEq(ctx.sum_r[idx],
                                    RatAdd(last.pre.sum_r[idx],
                                           Interpolated(Arg.pixels, W, p.xn, p.yn, p.den)))
                  ELSE /\ ctx.count[idx] = last.pre.count[idx]
                       /\ ctx.sum_r[idx] = last.pre.sum_r[idx]

\* C4 happens: an accepted later frame covered one pixel at a position
\* between the new frame's pixels and did not cover another
C4_Witness ==
    /\ Added
    /\ last.pre.frame_count >= 1
    /\ ~last.ret.null
    /\ last.ret.ok = 1
    /\ \E idx \in DOMAIN ctx.count :
          /\ Covered(last.aff, ctx.width, ctx.height, idx)
          /\ LET p == PreImage(last.aff, (idx - 1) % ctx.width, (idx - 1) \div ctx.width)
             IN  p.xn % p.den # 0
          /\ ctx.count[idx] = last.pre.count[idx] + 1
    /\ \E idx \in DOMAIN ctx.count : ctx.count[idx] = last.pre.count[idx]
    /\ \E i, j \in DOMAIN Arg.pixels : Arg.pixels[i] # Arg.pixels[j]

\* the last call was getStackedImageNative on a live handle
Got == last.op = "get" /\ ~last.pre.null

\* v is sum / count rounded half up and clamped to 0..255 (sum >= 0)
RoundedMean(v, sum, count) ==
    LET twice == 2 * sum[1] + sum[2] * count        \* 2 (sum/count + 1/2), times
        unit == 2 * sum[2] * count                  \* this
    IN  /\ v \in 0..255
        /\ v < 255 => (unit * v <= twice /\ twice < unit * (v + 1))
        /\ v = 255 => unit * 255 <= twice

EmitsMeans(image, c) ==
    /\ Len(image) = c.width * c.height
    /\ \A i \in 1..Len(image) :
          IF c.count[i] > 0
          THEN RoundedMean(ToU8(image[i]), c.sum_r[i], c.count[i])
          ELSE image[i] = 0

\* C5 as stated: getStackedImageNative emits, for every pixel,
\* round(sum/count) clamped to 0..255, or 0 where count is 0, and leaves the
\* accumulator alone.
C5_AlwaysEmitsMeans ==
    Got => /\ ~last.ret.null
           /\ EmitsMeans(last.ret.image, last.pre)
           /\ ctx = last.pre

\* C5, amended: with at least one frame accumulated getStackedImageNative
\* emits, for every pixel, round(sum/count) clamped to 0..255 (0 where count
\* is 0); with none it emits no image; either way the accumulator is left
\* alone.
C5_EmitsMeansOnceStacked ==
    Got => /\ last.pre.frame_count = 0 => last.ret.null
           /\ last.pre.frame_count >= 1
                 => (~last.ret.null /\ EmitsMeans(last.ret.image, last.pre))
           /\ ctx = last.pre

\* C5 happens: an image was emitted whose pixels were covered by different
\* numbers of frames and one of whose means is not a whole number
C5_Witness ==
    /\ Got
    /\ ~last.ret.null
    /\ \E i, j \in DOMAIN ctx.count : ctx.count[i] # ctx.count[j]
    /\ \E i \in DOMAIN ctx.count :
          /\ ctx.count[i] > 0
          /\ ctx.sum_r[i][1] % (ctx.sum_r[i][2] * ctx.count[i]) # 0

\* C6: when every frame supplied was the same frame, the stacked image is
\* within 1 of that frame at every pixel.
C6_IdenticalFramesMean ==
    (Got /\ ~last.ret.null /\ \A k \in 1..Len(supplied) : supplied[k] = supplied[1])
        => \A i \in 1..Len(last.ret.image) :
              Abs(ToU8(last.ret.image[i]) - ToU8(supplied[1].pixels[i])) <= 1

\* C7: initStackingNative with width <= 0 or height <= 0 returns no handle,
\* and addFrameNative with a buffer whose length is not width * height is
\* refused and accumulates nothing.
C7_InvalidInputRejected ==
    /\ (last.op = "init" /\ (last.width <= 0 \/ last.height <= 0)) => last.ret.null
    /\ (Added /\ Len(Arg.pixels) # last.pre.width * last.pre.height)
          => /\ (last.ret.null \/ last.ret.ok = 0)
             /\ SameAccumulator(ctx, last.pre)

(***************************************************************************)
(* Properties of the star orderer (specification SpecDetect)               *)
(***************************************************************************)
Detected == last.op = "detect" /\ ~last.ret.null

\* C8: a detection that ran without error and found no peak returns an
\* empty star list, not the null of a failed detection.
C8_EmptyIsNotFailure ==
    (last.op = "detect" /\ last.alloc_ok /\ last.result = 0 /\ Len(last.peaks) = 0)
        => (~last.ret.null /\ last.ret.stars = <<>>)

IsPermutation(s, N) ==
    /\ Len(s) = N
    /\ \A e \in 0..(N - 1) : Cardinality({k \in 1..N : s[k] = e}) = 1

\* the 0-based place of e in the permutation perm
Rank(perm, e) == CHOOSE k \in 0..(Len(perm) - 1) : perm[k + 1] = e

\* the place of e's first appearance in P1[0], P2[0], P1[1], P2[1], ...
FirstEmission(perm1, perm2, e) ==
    Min(2 * Rank(perm1, e), 2 * Rank(perm2, e) + 1)

\* C9: the interleaving emits P1[i] then P2[i] for i = 0, 1, ..., skipping
\* stars already emitted, so that every star 0..N-1 appears exactly once;
\* the uniformisation outputs a permutation of the N stars again.
C9_Permutations ==
    Detected =>
        LET N == Len(last.peaks)
            L == last.locals
        IN  /\ IsPermutation(L.perm1, N)
            /\ IsPermutation(L.perm2, N)
            /\ IsPermutation(L.resorted, N)
            /\ \A j, k \in 1..N :
                  j < k => FirstEmission(L.perm1, L.perm2, L.resorted[j])
                              < FirstEmission(L.perm1, L.perm2, L.resorted[k])
            /\ IsPermutation(L.output_order, N)
            /\ Len(last.ret.stars) = N
            /\ \A k \in 1..N :
                  LET p == last.peaks[L.output_order[k] + 1]
                  IN  last.ret.stars[k] = <<p.x, p.y, p.flux>>

\* C9 happens: at least 3 peaks, two of equal flux and two of equal raw
\* signal, and the uniformisation changed the order
C9_Witness ==
    /\ Detected
    /\ Len(last.peaks) >= 3
    /\ \E j, k \in 1..Len(last.peaks) :
          j # k /\ last.peaks[j].flux = last.peaks[k].flux
    /\ \E j, k \in 1..Len(last.peaks) :
          /\ j # k
          /\ last.peaks[j].flux + last.peaks[j].background
                = last.peaks[k].flux + last.peaks[k].background
    /\ last.locals.output_order # last.locals.resorted

Firsts(s, n) == {s[j] : j \in 1..n}

TopBoth(L, k) == Firsts(L.perm1, k) \cup Firsts(L.perm2, k)

\* C10 as stated: for every k with 2k <= N the first 2k stars of the
\* orderer's output are, as a set, the top k by flux and the top k by raw
\* signal.
C10_FirstTwoKOfOutput ==
    Detected =>
        \A k \in 1..Len(last.peaks) :
            2 * k <= Len(last.peaks)
                => Firsts(last.locals.output_order, 2 * k) = TopBoth(last.locals, k)

\* C10, amended: for every k <= N the top k by flux and the top k by raw
\* signal are together exactly the stars the interleaving emits first, as
\* many as they are, in the order before uniformisation.
C10_InterleavedPrefix ==
    Detected =>
        \A k \in 1..Len(last.peaks) :
            Firsts(last.locals.resorted, Cardinality(TopBoth(last.locals, k)))
                = TopBoth(last.locals, k)

\* C10 happens: with 4 peaks the top 2 by flux and the top 2 by raw signal
\* share a star, and the two orders rank the peaks differently
C10_Witness ==
    /\ Detected
    /\ Len(last.peaks) >= 4
    /\ Cardinality(TopBoth(last.locals, 2)) = 3
    /\ last.locals.perm1 # last.locals.perm2
    /\ last.locals.output_order # last.locals.resorted


\* the bin of star s: bin_assign at the place of s in the interleaved order
BinOfStar(L, s) ==
    L.bins.bin_assign[CHOOSE i \in 1..Len(L.resorted) : L.resorted[i] = s]

\* how many of the first k stars of the output lie in bin b
CountIn(L, b, k) ==
    Cardinality({j \in 1..k : BinOfStar(L, L.output_order[j]) = b})

CeilDiv(k, n) == (k + n - 1) \div n

\* C11 as stated: with N >= 10 peaks, in every prefix of the output of
\* length k >= 10 no bin of the grid holds more than ceil(k / bins) stars.
C11_PrefixWithinCeiling ==
    (Detected /\ Len(last.peaks) >= 10 /\ last.locals.bins.on) =>
        \A k \in 10..Len(last.peaks) :
            \A b \in 0..(last.locals.bins.nbins - 1) :
                CountIn(last.locals, b, k) <= CeilDiv(k, last.locals.bins.nbins)

\* C11, amended: in every prefix of the output no bin holds more than one
\* star more than any bin that still has a star outside the prefix.
C11_PrefixBalanced ==
    (Detected /\ last.locals.bins.on) =>
        LET L == last.locals
            N == Len(last.peaks)
        IN  \A k \in 1..N :
                \A b1, b2 \in 0..(L.bins.nbins - 1) :
                    CountIn(L, b2, k) < CountIn(L, b2, N)
                        => CountIn(L, b1, k) <= CountIn(L, b2, k) + 1

\* C11 happens: at least 10 peaks, the uniformisation changed the order, and
\* in a prefix of 10 stars one bin is used up, one is not, and one holds
\* more than ceil(10 / bins) stars
C11_Witness ==
    /\ Detected
    /\ Len(last.peaks) >= 10
    /\ last.locals.bins.on
    /\ last.locals.output_order # last.locals.resorted
    /\ LET L == last.locals
           N == Len(last.peaks)
       IN  /\ \E b \in 0..(L.bins.nbins - 1) :
                 CountIn(L, b, 10) > CeilDiv(10, L.bins.nbins)
           /\ \E b \in 0..(L.bins.nbins - 1) :
                 CountIn(L, b, N) > 0 /\ CountIn(L, b, 10) = CountIn(L, b, N)
           /\ \E b \in 0..(L.bins.nbins - 1) :
                 CountIn(L, b, 10) < CountIn(L, b, N)

(***************************************************************************)
(* Properties of the plate solver's entry point (specification SpecSolve)  *)
(***************************************************************************)
\* a solveFieldNative call got past its allocations
Solving == sf.pc # "idle" /\ sf.entered

\* the call has returned its result array
Returned == Solving /\ sf.pc = "done"

SomeRunSolved == \E k \in 1..Len(sf.runs) : sf.runs[k].solved

\* C12: the k-th solver run is for the k-th depth of the schedule 10, 20,
\* ..., 200; no run follows a run that solved; the result has solved = 1
\* exactly when a run solved, and is all zero when none did.
C12_StopsAtFirstSolve ==
    Solving =>
        /\ \A k \in 1..Len(sf.runs) :
              /\ k <= 20
              /\ sf.runs[k].depth = 10 * k
              /\ k < Len(sf.runs) => ~sf.runs[k].solved
        /\ Returned =>
              /\ ~sf.ret.null
              /\ Len(sf.ret.result) = 12
              /\ sf.ret.result[1] = (IF SomeRunSolved THEN 1 ELSE 0)
              /\ ~SomeRunSolved => \A j \in 1..12 : sf.ret.result[j] = 0

\* C12 happens: the third window solved after two that did not, one of which
\* left a match, and the result carries the solving match
C12_Witness ==
    /\ Returned
    /\ Len(sf.runs) = 3
    /\ sf.runs[3].solved
    /\ sf.ret.result[1] = 1
    /\ sf.ret.result[2] = 50
    /\ sf.numStars > 30

\* the names of the paths that load, in list order
Loadable(paths) ==
    LET F[n \in 0..Len(paths)] ==
            IF n = 0 THEN <<>>
            ELSE IF paths[n].loads THEN Append(F[n - 1], paths[n].name)
            ELSE F[n - 1]
    IN  F[Len(paths)]

\* C13: once the index loop is over the solver holds exactly the paths that
\* loaded, in list order, whatever failed; every solver run sees them; with
\* at least one star the first window is run, and the call returns a result
\* array with solved 0 or 1, also when every path failed.
C13_IndexFailureNotFatal ==
    Solving =>
        /\ sf.pc \in {"depth", "result", "done"}
              => sf.solver.indexes = Loadable(sf.paths)
        /\ \A k \in 1..Len(sf.runs) : sf.runs[k].indexes = Loadable(sf.paths)
        /\ Returned =>
              /\ ~sf.ret.null
              /\ sf.ret.result[1] \in {0, 1}
              /\ sf.numStars >= 1 => Len(sf.runs) >= 1

\* C13 happens: the first path failed, the second loaded, and a window solved
C13_Witness ==
    /\ Returned
    /\ Len(sf.paths) = 2
    /\ ~sf.paths[1].loads
    /\ sf.paths[2].loads
    /\ sf.solver.indexes = <<sf.paths[2].name>>
    /\ sf.ret.result[1] = 1

\* C13 happens as well: every path failed, windows were run, none solved
C13_WitnessAllFailed ==
    /\ Returned
    /\ Len(sf.paths) >= 1
    /\ \A i \in 1..Len(sf.paths) : ~sf.paths[i].loads
    /\ Len(sf.runs) >= 2
    /\ sf.ret.result[1] = 0

\* C19: run k starts at the schedule depth before it (0 for the first) and
\* ends at min(depths[k], numStars); successive windows are contiguous; no
\* run starts at or beyond numStars or ends beyond it; there are at most 20
\* runs; every run finds the counters and the best match reset.
C19_DepthWindows ==
    Solving =>
        /\ Len(sf.runs) <= 20
        /\ \A k \in 1..Len(sf.runs) :
              /\ sf.runs[k].startobj = 10 * (k - 1)
              /\ sf.runs[k].endobj = Min(10 * k, sf.numStars)
              /\ sf.runs[k].startobj < sf.numStars
              /\ sf.runs[k].endobj <= sf.numStars
              /\ sf.runs[k].startobj < sf.runs[k].endobj
              /\ k > 1 => sf.runs[k].startobj = sf.runs[k - 1].endobj
              /\ sf.runs[k].numtries = 0
              /\ ~sf.runs[k].have_best_match
        /\ sf.numStars = 0 => sf.runs = <<>>

\* C19 happens: 20 windows were run on more than 200 stars and none solved
C19_Witness ==
    /\ Returned
    /\ Len(sf.runs) = 20
    /\ sf.numStars > 200
    /\ sf.ret.result[1] = 0

\* C19 happens as well: the last window run was clamped to the star count
C19_WitnessClamped ==
    /\ Returned
    /\ Len(sf.runs) = 3
    /\ sf.runs[3].endobj = sf.numStars
    /\ sf.numStars % 10 # 0
    /\ ~SomeRunSolved
    /\ sf.solver.have_best_match

(***************************************************************************)
(* Properties of two coexisting accumulators (specification SpecTwo)       *)
(***************************************************************************)
\* the step is a call on the second handle
OtherCall == other' # other \/ last'.op \in {"init_other", "add_other"}

\* C14: creating a second accumulator, or adding a frame to it, leaves the
\* random number generator the first accumulator draws its RANSAC samples
\* from as it was.
C14_PrngLocalToAccumulator == [][OtherCall => rng' = rng]_vars

(***************************************************************************)
(* Properties of the alignment functions (specification SpecAlign)         *)
(***************************************************************************)
\* a triangle was formed and is not degenerate
Formed == last.op = "triangle" /\ last.ret # <<>>

\* the squared length of the side opposite vertex v of the triangle p, q, r
OppositeSide(stars, p, q, r, v) ==
    LET o == IF v = p THEN <<q, r>> ELSE IF v = q THEN <<p, r>> ELSE <<p, q>>
    IN  dist2(stars[o[1] + 1].x, stars[o[1] + 1].y,
              stars[o[2] + 1].x, stars[o[2] + 1].y)

\* C15: star_indices[k] is the vertex opposite the k-th shortest side,
\* 1 <= ratio1 <= ratio2, and the triangle formed with a and b swapped has
\* the same ratios and the same star_indices, also when two sides are of
\* equal length.
C15_CanonicalDescriptor ==
    Formed =>
        LET L == last.locals
            t == last.ret[1]
            Side(k) == OppositeSide(L.stars, L.i, L.idx_a, L.idx_b, t.star_indices[k])
        IN  /\ {t.star_indices[k] : k \in 1..3} = {L.i, L.idx_a, L.idx_b}
            /\ Side(1) <= Side(2)
            /\ Side(2) <= Side(3)
            /\ t.r1n * Side(1) = Side(2) * t.r1d
            /\ t.r2n * Side(1) = Side(3) * t.r2d
            /\ L.swapped = last.ret

\* match_triangles was applied
Matched == last.op = "match"

\* the (new, ref) triangle pairs, 1-based, in scan order: new triangles in
\* the outer loop, ref triangles in the inner loop
ScanOrder(num_new_tri, num_ref_tri) ==
    [k \in 1..(num_new_tri * num_ref_tri) |->
        <<((k - 1) \div num_ref_tri) + 1, ((k - 1) % num_ref_tri) + 1>>]

\* those of them whose ratio1 and ratio2 both agree within 0.01
MatchedPairs(L) ==
    LET Agree(pr) == TriangleMatch(L.new_tri[pr[1]], L.ref_tri[pr[2]])
    IN  SelectSeq(ScanOrder(Len(L.new_tri), Len(L.ref_tri)), Agree)

\* the correspondence of canonical vertex k (1..3) of the matched pair pr
VertexCorr(L, pr, k) ==
    LET n == L.new_stars[L.new_tri[pr[1]].star_indices[k] + 1]
        r == L.ref_stars[L.ref_tri[pr[2]].star_indices[k] + 1]
    IN  [new_x |-> n.x, new_y |-> n.y, ref_x |-> r.x, ref_y |-> r.y]

\* the p-th correspondence is that of vertex ((p - 1) mod 3) of the
\* ((p - 1) div 3)-th matched pair
InScanOrder(L, corr, pairs) ==
    \A p \in 1..Len(corr) :
        /\ (p - 1) \div 3 < Len(pairs)
        /\ corr[p] = VertexCorr(L, pairs[((p - 1) \div 3) + 1], ((p - 1) % 3) + 1)

\* C16 as stated: the correspondences come in complete groups of three, one
\* group per matched pair in scan order, and there are never more than
\* 10000 of them, also when the cap is reached inside a group.
C16_CompleteGroups ==
    Matched =>
        \A pairs \in {MatchedPairs(last.locals)} :
            /\ Len(last.ret) <= 10000
            /\ Len(last.ret) % 3 = 0
            /\ InScanOrder(last.locals, last.ret, pairs)

\* C16, amended: the correspondences are the first min(3 M, 10000) of the
\* groups of three of the M matched pairs in scan order, so that every group
\* is complete except the last one when the cap of 10000 cuts it.
C16_GroupsUpToCap ==
    Matched =>
        \A pairs \in {MatchedPairs(last.locals)} :
            /\ Len(last.ret) = Min(3 * Len(pairs), 10000)
            /\ InScanOrder(last.locals, last.ret, pairs)

\* C16 happens: more than 3333 pairs matched and the cap cut a group
C16_Witness ==
    /\ Matched
    /\ Len(last.ret) = 10000
    /\ Len(last.locals.new_tri) * Len(last.locals.ref_tri) > 3334
    /\ last.ret[10000].new_x # last.ret[9998].new_x
          \/ last.ret[10000].new_y # last.ret[9998].new_y

\* ransac_affine was applied
Ran == last.op = "ransac"

\* the generator positions the iterations of a run start from
RECURSIVE Orbit(_, _, _)
Orbit(table, pos, seen) ==
    IF pos \in seen THEN seen
    ELSE Orbit(table, table[pos + 1].rng.pos, seen \cup {pos})

\* what the iterations of the last run drew and computed
Evaluated ==
    {last.locals.table[p + 1] : p \in Orbit(last.locals.table, last.locals.rng.pos, {})}

\* those with a solvable sample
Solvable == {it \in Evaluated : it.solved}

\* C17: in every iteration the three sampled correspondence indices are
\* pairwise distinct, whatever the generator returns.
C17_SampleIndicesDistinct ==
    (Ran /\ Len(last.locals.corr) >= 3) =>
        \A it \in Evaluated :
            /\ it.indices[1] # it.indices[2]
            /\ it.indices[1] # it.indices[3]
            /\ it.indices[2] # it.indices[3]

\* the generator position after n iterations of the loop started at pos
RECURSIVE StepN(_, _, _)
StepN(table, pos, n) ==
    IF n = 0 THEN pos
    ELSE IF n = 1 THEN table[pos + 1].rng.pos
    ELSE LET mid == StepN(table, pos, n \div 2)
         IN  IF mid >= 0 THEN StepN(table, mid, n - (n \div 2)) ELSE mid

\* it is at least as good as jt by (inliers, -RMS)
AtLeastAsGood(it, jt) ==
    \/ it.ev.inliers > jt.ev.inliers
    \/ /\ it.ev.inliers = jt.ev.inliers
       /\ ~FracLess(jt.ev.rms_n, jt.ev.rms_d, it.ev.rms_n, it.ev.rms_d)

\* the solvable samples no other solvable sample beats
BestSamples == {it \in Solvable : \A jt \in Solvable : AtLeastAsGood(it, jt)}

\* C18: RANSAC keeps the best model by (inliers, -RMS).  It fails iff
\* num_corr < 3 or no solvable sample has an inlier; otherwise, after exactly
\* 500 iterations, it returns the affine, inlier count and RMS of a solvable
\* sample with the maximal inlier count and, among those, the minimal RMS.
\* Singular samples have no part in the outcome.
C18_KeepsBestModel ==
    Ran =>
        /\ last.ret.ok <=>
              /\ Len(last.locals.corr) >= 3
              /\ \E it \in Solvable : it.ev.inliers >= 1
        /\ Len(last.locals.corr) >= 3 =>
              last.ret.rng.pos = StepN(last.locals.table, last.locals.rng.pos,
                                       RANSAC_ITERATIONS)
        /\ Len(last.locals.corr) < 3 => last.ret.rng = last.locals.rng
        /\ last.ret.ok =>
              \E it \in BestSamples :
                  /\ last.ret.aff = it.aff
                  /\ last.ret.inliers = it.ev.inliers
                  /\ last.ret.rms = [n |-> it.ev.rms_n, d |-> it.ev.rms_d]

\* a successful run that evaluated a singular sample and a solvable sample
\* of fewer inliers than the returned one
C18_Witness ==
    /\ Ran
    /\ last.ret.ok
    /\ \E it \in Evaluated : ~it.solved
    /\ \E it \in Solvable : it.ev.inliers < last.ret.inliers

\* a successful run that evaluated a solvable sample of as many inliers as
\* the returned one and a larger RMS
C18_WitnessRms ==
    /\ Ran
    /\ last.ret.ok
    /\ \E it \in Solvable :
          /\ it.ev.inliers = last.ret.inliers
          /\ FracLess(last.ret.rms.n, last.ret.rms.d, it.ev.rms_n, it.ev.rms_d)

\* a run of at least 3 correspondences that fails: every sample is singular
\* or has no inlier
C18_WitnessFails ==
    /\ Ran
    /\ Len(last.locals.corr) >= 3
    /\ ~last.ret.ok

\* a call with fewer than 3 correspondences
C18_WitnessTooFew ==
    /\ Ran
    /\ Len(last.locals.corr) < 3

Warped == last.op = "warp"

InBuffer(i) == 0 <= i /\ i < last.width * last.height

\* C20: for W, H >= 2 and every affine, the four neighbour reads of the
\* bilinear sampler and the writes into sum and count use indices in
\* [0, W*H); a pixel is sampled only when 0 <= src_x < W-1 and
\* 0 <= src_y < H-1, so that x0+1 <= W-1 and y0+1 <= H-1.
C20_WarpAccessesInBounds ==
    (Warped /\ last.width >= 2 /\ last.height >= 2) =>
        \A a \in last.locals.accesses :
            /\ \A k \in 1..Len(a.reads) : InBuffer(a.reads[k])
            /\ \A k \in 1..Len(a.writes) : InBuffer(a.writes[k])
            /\ InBuffer(a.idx)
            /\ a.sampled <=> last.ret.count[a.idx + 1] = 1
            /\ a.sampled =>
                  /\ 0 <= a.src[1]
                  /\ a.src[1] < (last.width - 1) * last.locals.inv.inv.den
                  /\ 0 <= a.src[2]
                  /\ a.src[2] < (last.height - 1) * last.locals.inv.inv.den
                  /\ Len(a.reads) = 4
                  /\ a.reads[4] % last.width <= last.width - 1
                  /\ a.reads[4] % last.width = (a.reads[1] % last.width) + 1
                  /\ a.reads[4] \div last.width = (a.reads[1] \div last.width) + 1
                  /\ a.reads[4] \div last.width <= last.height - 1

\* a warp that samples a pixel at a fractional source position whose
\* neighbours reach the last column and the last row, and leaves out a pixel
C20_Witness ==
    /\ Warped
    /\ \E a \in last.locals.accesses :
          /\ a.sampled
          /\ a.src[1] % last.locals.inv.inv.den # 0
          /\ a.reads[4] = last.width * last.height - 1
    /\ \E a \in last.locals.accesses : ~a.sampled

\* the resort index of star s: its 0-based place in the interleaved order
ResortIndex(L, s) == (CHOOSE i \in 1..Len(L.resorted) : L.resorted[i] = s) - 1

\* the round star s is emitted in: how many stars of its bin come before it
\* in the interleaved order
RoundOf(L, s) ==
    Cardinality({i \in 1..ResortIndex(L, s) :
                    L.bins.bin_assign[i] = BinOfStar(L, s)})

\* C21 as stated: rounds are concatenated in increasing r and within a round
\* the stars are emitted in row-major bin order (bin index ascending).
C21_RoundsInBinOrder ==
    (Detected /\ last.locals.bins.on) =>
        LET L == last.locals
        IN  \A p, q \in 1..Len(L.output_order) :
                p < q =>
                    \/ RoundOf(L, L.output_order[p]) < RoundOf(L, L.output_order[q])
                    \/ /\ RoundOf(L, L.output_order[p]) = RoundOf(L, L.output_order[q])
                       /\ BinOfStar(L, L.output_order[p]) < BinOfStar(L, L.output_order[q])

\* C21, amended: rounds are concatenated in increasing r and within a round
\* the stars are emitted in increasing resort index, that is in the
\* brightness-interleaved order.
C21_RoundsInBrightnessOrder ==
    (Detected /\ last.locals.bins.on) =>
        LET L == last.locals
        IN  \A p, q \in 1..Len(L.output_order) :
                p < q =>
                    \/ RoundOf(L, L.output_order[p]) < RoundOf(L, L.output_order[q])
                    \/ /\ RoundOf(L, L.output_order[p]) = RoundOf(L, L.output_order[q])
                       /\ ResortIndex(L, L.output_order[p])
                              < ResortIndex(L, L.output_order[q])

\* C21 happens: a detection with at least two rounds in which two stars of
\* one round are emitted against the order of their bins
C21_Witness ==
    /\ Detected
    /\ last.locals.bins.on
    /\ LET L == last.locals
       IN  /\ \E p \in 1..Len(L.output_order) : RoundOf(L, L.output_order[p]) >= 1
           /\ \E p, q \in 1..Len(L.output_order) :
                 /\ p < q
                 /\ RoundOf(L, L.output_order[p]) = RoundOf(L, L.output_order[q])
                 /\ BinOfStar(L, L.output_order[p]) > BinOfStar(L, L.output_order[q])

\* count and sum of every pixel of accumulator c agree with its frame_count
CountsWithin(c) ==
    \A i \in DOMAIN c.count :
        /\ 0 <= c.count[i]
        /\ c.count[i] <= c.frame_count
        /\ c.frame_count >= 1 => c.count[i] >= 1
        /\ c.frame_count = 0 => (c.count[i] = 0 /\ c.sum_r[i][1] = 0)

\* C22: after every init, add_frame and get_stacked call on one accumulator,
\* for every pixel i: 0 <= count[i] <= frame_count; count[i] >= 1 whenever
\* frame_count >= 1; count[i] = 0 and sum[i] = 0 whenever frame_count = 0;
\* and frame_count never decreases.
C22_CountsWithinFrameCount ==
    [][/\ ~ctx'.null => CountsWithin(ctx')
       /\ (~ctx.null /\ ~ctx'.null) => ctx'.frame_count >= ctx.frame_count]_vars

\* C22 happens: two frames are accumulated and the second one did not cover
\* every pixel, so some count is below frame_count and some equals it
C22_Witness ==
    /\ ~ctx.null
    /\ ctx.frame_count = 2
    /\ \E i \in DOMAIN ctx.count : ctx.count[i] = 1
    /\ \E i \in DOMAIN ctx.count : ctx.count[i] = 2

\* C22 happens: a refused first frame left an accumulator of some pixels at
\* frame_count = 0
C22_WitnessEmpty ==
    /\ Added
    /\ last.ret.null
    /\ ctx.frame_count = 0
    /\ DOMAIN ctx.count # {}

\* the reference of accumulator c is the one of c0
SameReference(c, c0) ==
    /\ c.ref_stars = c0.ref_stars
    /\ c.num_ref_stars = c0.num_ref_stars
    /\ c.ref_triangles = c0.ref_triangles
    /\ c.num_ref_triangles = c0.num_ref_triangles
    /\ c.width = c0.width
    /\ c.height = c0.height

\* the stars of the first frame supplied that was accepted: the first one of
\* at least 3 stars
FirstAcceptedStars ==
    supplied[CHOOSE k \in 1..Len(supplied) :
                 /\ Len(supplied[k].stars) >= 3
                 /\ \A j \in 1..(k - 1) : Len(supplied[j].stars) < 3].stars

\* C23: once the first frame has been accepted (frame_count >= 1), no
\* add_frame or get_stacked call, successful or failing, changes the
\* reference stars, the reference triangles, the width or the height; the
\* reference every later frame is aligned against is the one of the first
\* accepted frame.
C23_ReferenceFixed ==
    [][/\ (~ctx.null /\ ctx.frame_count >= 1) => SameReference(ctx', ctx)
       /\ (~ctx'.null /\ ctx'.frame_count >= 1) =>
              /\ ctx'.ref_stars = Take(FirstAcceptedStars',
                                       Min(Len(FirstAcceptedStars'), MAX_STACKING_STARS))
              /\ ctx'.ref_triangles
                     = form_triangles(ctx'.ref_stars, Len(ctx'.ref_stars)).tri]_vars

\* C23 happens: after the reference frame a frame of other stars was
\* accepted
C23_Witness ==
    /\ Added
    /\ last.pre.frame_count >= 1
    /\ last.ret.ok = 1
    /\ ctx.frame_count = last.pre.frame_count + 1
    /\ Len(Arg.stars) >= 3
    /\ Arg.stars # FirstAcceptedStars

\* C23 happens: after the reference frame a frame of other stars was
\* refused
C23_WitnessRefused ==
    /\ Added
    /\ last.pre.frame_count >= 1
    /\ last.ret.ok = 0
    /\ Arg.stars # FirstAcceptedStars

\* the last call was addFrameNative on an accumulator with frame_count = 0
AddedFirst == Added /\ last.pre.frame_count = 0

\* C24: an add_frame call on an accumulator with frame_count = 0 whose star
\* list has fewer than 3 stars returns no result tuple and leaves
\* frame_count = 0 and every sum and count unchanged; the next add_frame call
\* is again treated as the reference frame; a first frame is only accepted
\* with at least 3 stars.
C24_ShortFirstFrameRejected ==
    /\ (AddedFirst /\ Len(Arg.stars) < 3) =>
           /\ last.ret.null
           /\ ctx.frame_count = 0
           /\ SameAccumulator(ctx, last.pre)
    /\ (AddedFirst /\ ~last.ret.null) => Len(Arg.stars) >= 3
    /\ (AddedFirst /\ Len(supplied) >= 2 /\ Len(Arg.stars) >= 3) =>
           /\ ~last.ret.null
           /\ last.ret.ok = 1
           /\ last.ret.frame_count = 1
           /\ ctx.frame_count = 1
           /\ ctx.ref_stars = Take(Arg.stars, Min(Len(Arg.stars), MAX_STACKING_STARS))
           /\ \A i \in DOMAIN ctx.count : ctx.count[i] = 1

\* C24 happens: a first frame of 2 stars was refused by an accumulator that
\* has pixels
C24_Witness ==
    /\ AddedFirst
    /\ Len(Arg.stars) < 3
    /\ last.ret.null
    /\ DOMAIN ctx.count # {}

\* C24 happens: after a refused first frame, a frame of at least 3 stars
\* became the reference
C24_WitnessNextIsReference ==
    /\ AddedFirst
    /\ Len(supplied) = 2
    /\ Len(supplied[1].stars) < 3
    /\ Len(Arg.stars) >= 3
    /\ ctx.frame_count = 1
    /\ DOMAIN ctx.count # {}
=============================================================================
